---- MODULE Spec2Model ----
(***************************************************************************)
(* Model of the Brumas API (rodrigomoreli/brumas2): the identity and role   *)
(* gate (app/api/deps.py), login, user management, the event aggregate     *)
(* (events with their expenses and tastings) and the relational store's    *)
(* integrity rules that decide the outcome of a commit.                     *)
(*                                                                         *)
(* One request is one atomic step: a handler runs its dependencies, its     *)
(* body and the final commit inside a single session (deps.get_db).  The    *)
(* variable `last` holds the request just served and its response, so that  *)
(* properties can relate what was asked, by whom, and what came back.       *)
(***************************************************************************)
EXTENDS Integers, Sequences, FiniteSets, TLC

VARIABLES users, tokens, dims, eventos, despesas, degustacoes, nextId, last, clock, stamps, requests

vars == <<users, tokens, dims, eventos, despesas, degustacoes, nextId, last, clock, stamps, requests>>

store == <<users, tokens, dims, eventos, despesas, degustacoes, nextId>>

\* The created_at / updated_at columns of the rows and the clock they are
\* read from.  Only the specification of the timestamps lets time pass; the
\* others hold it still.
time == <<clock, stamps>>

\* `requests` holds the requests in flight of the specifications that follow a
\* handler step by step; every other specification serves each request in
\* one step and leaves it alone.

----------------------------------------------------------------------------
(* Values *)

\* Python's None (SQL NULL).  Row ids are >= 1; 0 is an integer the schemas
\* accept that is falsy in Python and names no row.
NULL == 0 - 1

\* Python truthiness of an Optional[int] / Optional[str] value.
Truthy(v) == v # NULL /\ v # 0

ADMINISTRATIVO == "administrativo"
OPERACIONAL == "operacional"

\* EventoStatus, each member by its place in the enum's declaration (the order
\* the store sorts the column by).
ORCAMENTO == 1
CONFIRMADO == 2
REALIZADO == 3
CANCELADO == 4

EventoStatus == {ORCAMENTO, CONFIRMADO, REALIZADO, CANCELADO}

\* DegustacaoStatus, likewise.
AGENDADA == 1
REALIZADA == 2
CANCELADA == 3

DegustacaoStatus == {AGENDADA, REALIZADA, CANCELADA}

\* The seven dimension tables.
Kinds == {"assessorias", "buffets", "cidades", "clientes", "insumos", "locais_evento", "tipos_evento"}

\* Evento's foreign keys to dimension tables, and the table each refers to.
RefFields == {"id_cliente", "id_local_evento", "id_tipo_evento", "id_cidade", "id_assessoria", "id_buffet"}

KindOf(f) ==
    CASE f = "id_cliente" -> "clientes"
      [] f = "id_local_evento" -> "locais_evento"
      [] f = "id_tipo_evento" -> "tipos_evento"
      [] f = "id_cidade" -> "cidades"
      [] f = "id_assessoria" -> "assessorias"
      [] f = "id_buffet" -> "buffets"

\* Columns of eventos declared nullable=False (besides id and the timestamps).
EventoNotNull == {"id_cliente", "id_local_evento", "data_evento", "status_evento", "id_usuario_criador"}

\* The fields of EventoBase that this model carries.
EventoBaseFields == RefFields \cup {"data_evento", "status_evento", "vlr_total_contrato"}

DespesaBaseFields == {"id_insumo", "vlr_total_pago"}

DegustacaoBaseFields == {"status"}

\* Restriction of a function to a set of keys.
Restrict(f, S) == [k \in (DOMAIN f) \cap S |-> f[k]]

\* dict.update: g's keys override f's.
Override(f, g) == [k \in (DOMAIN f) \cup (DOMAIN g) |-> IF k \in DOMAIN g THEN g[k] ELSE f[k]]

\* A table without the rows whose ids are in S.
Without(t, S) == [k \in (DOMAIN t) \ S |-> t[k]]

\* A table with one more row.
With(t, id, row) == [k \in (DOMAIN t) \cup {id} |-> IF k = id THEN row ELSE t[k]]

EmptyReq == [k \in {} |-> NULL]

EmptyBody == [items |-> <<>>, total |-> 0, page |-> 0, page_size |-> 0, total_pages |-> 0, has_next |-> FALSE, has_previous |-> FALSE]

\* The record of a served request: what was asked and what was answered.
Response(op, cred, status, detail, id, id2, req, body) ==
    [op |-> op, cred |-> cred, status |-> status, detail |-> detail, id |-> id, id2 |-> id2, req |-> req, body |-> body]

Reply(op, cred, status, detail, id, id2, req) == Response(op, cred, status, detail, id, id2, req, EmptyBody)

----------------------------------------------------------------------------
(* Identity and role gate: app/api/deps.py *)

\* A credential is the `sub` of a token signed by this server, or BadToken
\* for a bearer string that jwt.decode rejects.
BadToken == NULL

\* get_current_user: the outcome for a credential.
get_current_user(cred) ==
    IF cred = BadToken THEN [status |-> 403, detail |-> "credentials"]
    ELSE IF cred \notin DOMAIN users THEN [status |-> 404, detail |-> "user_not_found"]
    ELSE [status |-> 200, detail |-> "ok"]

\* get_current_active_user
get_current_active_user(cred) ==
    LET u == get_current_user(cred) IN
    IF u.status # 200 THEN u
    ELSE IF ~users[cred].is_active THEN [status |-> 400, detail |-> "inactive"]
    ELSE u

\* The administrative gate with the role tested before the active flag.
get_current_active_admin_user_RoleFirst(cred) ==
    LET u == get_current_user(cred) IN
    IF u.status # 200 THEN u
    ELSE IF users[cred].perfil # ADMINISTRATIVO THEN [status |-> 403, detail |-> "role"]
    ELSE IF ~users[cred].is_active THEN [status |-> 400, detail |-> "inactive"]
    ELSE u

\* An administrative gate that goes by the role the account had when its
\* token was issued: of the tokens in circulation only user 1's was issued to
\* an administrator.
get_current_active_admin_user_AsIssued(cred) ==
    LET u == get_current_active_user(cred) IN
    IF u.status # 200 THEN u
    ELSE IF cred # 1 THEN [status |-> 403, detail |-> "role"]
    ELSE u

\* get_current_active_admin_user
get_current_active_admin_user(cred) ==
    LET u == get_current_active_user(cred) IN
    IF u.status # 200 THEN u
    ELSE IF users[cred].perfil # ADMINISTRATIVO THEN [status |-> 403, detail |-> "role"]
    ELSE u

\* get_current_active_operational_user
get_current_active_operational_user(cred) ==
    LET u == get_current_active_user(cred) IN
    IF u.status # 200 THEN u
    ELSE IF users[cred].perfil \notin {OPERACIONAL, ADMINISTRATIVO} THEN [status |-> 403, detail |-> "role"]
    ELSE u

\* The test that lets everybody through.
NotOwnerNorAdmin_Never(cred, row) == FALSE

\* The owner-or-admin test used by every handler (current_user.perfil !=
\* "administrativo" and obj.id_usuario_criador != current_user.id).
NotOwnerNorAdmin(cred, row) ==
    users[cred].perfil # ADMINISTRATIVO /\ row.id_usuario_criador # cred

----------------------------------------------------------------------------
(* The relational store: what a commit accepts *)

\* eventos: NOT NULL columns hold a value, every foreign key that is not NULL
\* names an existing row (the store enforces the declared ForeignKey
\* constraints; a violation surfaces as IntegrityError on commit).
EventoRowOK(r) ==
    /\ \A f \in EventoNotNull : r[f] # NULL
    /\ \A f \in RefFields : r[f] = NULL \/ r[f] \in DOMAIN dims[KindOf(f)]
    /\ r.id_usuario_criador \in DOMAIN users

DespesaRowOK(r) ==
    /\ r.id_evento \in DOMAIN eventos
    /\ r.id_insumo \in DOMAIN dims["insumos"]
    /\ r.vlr_total_pago # NULL
    /\ r.id_usuario_criador \in DOMAIN users

DegustacaoRowOK(r) ==
    /\ r.id_evento \in DOMAIN eventos
    /\ r.status # NULL
    /\ r.id_usuario_criador \in DOMAIN users

\* The relationship without its delete cascade: no child is reached.
DespesasOf_NoCascade(E) == {}

\* The children of an event (Evento.despesas / Evento.degustacoes).
DespesasOf(E) == {d \in DOMAIN despesas : despesas[d].id_evento \in E}

DegustacoesOf(E) == {d \in DOMAIN degustacoes : degustacoes[d].id_evento \in E}

----------------------------------------------------------------------------
(* Event aggregate: app/crud/crud_event.py and app/api/routers/eventos.py *)

\* One check of validate_evento_relationships: the key is present, its value
\* is truthy, and no row of the referenced table has that id.
RefMissing(data, f) ==
    f \in DOMAIN data /\ Truthy(data[f]) /\ data[f] \notin DOMAIN dims[KindOf(f)]

\* validate_evento_relationships: the first reference found missing, in the
\* order the function checks them, or "ok".
validate_evento_relationships(data) ==
    IF RefMissing(data, "id_cliente") THEN "id_cliente"
    ELSE IF RefMissing(data, "id_local_evento") THEN "id_local_evento"
    ELSE IF RefMissing(data, "id_tipo_evento") THEN "id_tipo_evento"
    ELSE IF RefMissing(data, "id_cidade") THEN "id_cidade"
    ELSE IF RefMissing(data, "id_assessoria") THEN "id_assessoria"
    ELSE IF RefMissing(data, "id_buffet") THEN "id_buffet"
    ELSE "ok"

\* EventoCreate.model_dump(): every schema field, the unset ones at their
\* defaults; keys the schema does not declare are dropped by pydantic.
EventoCreateDump(raw) ==
    [f \in EventoBaseFields |->
        IF f \in DOMAIN raw THEN raw[f]
        ELSE IF f = "status_evento" THEN ORCAMENTO ELSE NULL]

\* A dump that keeps every key of the body.
EventoUpdateDump_KeepAll(raw) == raw

\* EventoUpdate.model_dump(exclude_unset=True): only the keys sent, and of
\* those only the ones EventoBase declares.
EventoUpdateDump(raw) == Restrict(raw, EventoBaseFields)

\* The row that Evento(**evento_data, id_usuario_criador=user_id) inserts: a
\* None status_evento takes the column default.
NewEvento(data, user_id) ==
    [f \in EventoBaseFields \cup {"id_usuario_criador"} |->
        IF f = "id_usuario_criador" THEN user_id
        ELSE IF f = "status_evento" /\ data[f] = NULL THEN ORCAMENTO
        ELSE data[f]]

\* validate_event_permission without the ownership test.
validate_event_permission_NoOwner(evento_id, cred) ==
    IF evento_id \notin DOMAIN eventos THEN [status |-> 404, detail |-> "evento"]
    ELSE [status |-> 200, detail |-> "ok"]

\* validate_event_permission: 404 for no event, 403 for a caller that is
\* neither administrative nor the creator.
validate_event_permission(evento_id, cred) ==
    IF evento_id \notin DOMAIN eventos THEN [status |-> 404, detail |-> "evento"]
    ELSE IF NotOwnerNorAdmin(cred, eventos[evento_id]) THEN [status |-> 403, detail |-> "owner"]
    ELSE [status |-> 200, detail |-> "ok"]

\* routers/eventos.py create_evento with crud_event.create_evento.
create_evento(cred, raw) ==
    LET auth == get_current_active_operational_user(cred)
        data == EventoCreateDump(raw)
        missing == validate_evento_relationships(data)
        row == NewEvento(data, cred)
        id == nextId.eventos
    IN
    IF auth.status # 200 THEN
        /\ last' = Reply("create_evento", cred, auth.status, auth.detail, NULL, NULL, raw)
        /\ UNCHANGED store
    ELSE IF missing # "ok" THEN
        /\ last' = Reply("create_evento", cred, 404, missing, NULL, NULL, raw)
        /\ UNCHANGED store
    ELSE IF ~EventoRowOK(row) THEN
        /\ last' = Reply("create_evento", cred, 500, "integrity", NULL, NULL, raw)
        /\ UNCHANGED store
    ELSE
        /\ eventos' = With(eventos, id, row)
        /\ nextId' = [nextId EXCEPT !.eventos = id + 1]
        /\ last' = Reply("create_evento", cred, 201, "ok", id, NULL, raw)
        /\ UNCHANGED <<users, tokens, dims, despesas, degustacoes>>

\* routers/eventos.py read_evento.
read_evento(cred, evento_id) ==
    LET auth == get_current_active_operational_user(cred)
        perm == IF auth.status = 200 THEN validate_event_permission(evento_id, cred) ELSE auth
    IN
    /\ last' = Reply("read_evento", cred, perm.status, perm.detail, evento_id, NULL, EmptyReq)
    /\ UNCHANGED store

\* routers/eventos.py update_evento with crud_event.update_evento.
update_evento(cred, evento_id, raw) ==
    LET auth == get_current_active_operational_user(cred)
        perm == IF auth.status = 200 THEN validate_event_permission(evento_id, cred) ELSE auth
        update_data == EventoUpdateDump(raw)
        missing == validate_evento_relationships(update_data)
        row == Override(eventos[evento_id], update_data)
    IN
    IF perm.status # 200 THEN
        /\ last' = Reply("update_evento", cred, perm.status, perm.detail, evento_id, NULL, raw)
        /\ UNCHANGED store
    ELSE IF missing # "ok" THEN
        /\ last' = Reply("update_evento", cred, 404, missing, evento_id, NULL, raw)
        /\ UNCHANGED store
    ELSE IF ~EventoRowOK(row) THEN
        /\ last' = Reply("update_evento", cred, 500, "integrity", evento_id, NULL, raw)
        /\ UNCHANGED store
    ELSE
        /\ eventos' = [eventos EXCEPT ![evento_id] = row]
        /\ last' = Reply("update_evento", cred, 200, "ok", evento_id, NULL, raw)
        /\ UNCHANGED <<users, tokens, dims, despesas, degustacoes, nextId>>

\* routers/eventos.py delete_evento with crud_event.delete_evento: the ORM
\* cascade (all, delete-orphan) removes the event's expenses and tastings.
delete_evento(cred, evento_id) ==
    LET auth == get_current_active_operational_user(cred)
        perm == IF auth.status = 200 THEN validate_event_permission(evento_id, cred) ELSE auth
    IN
    IF perm.status # 200 THEN
        /\ last' = Reply("delete_evento", cred, perm.status, perm.detail, evento_id, NULL, EmptyReq)
        /\ UNCHANGED store
    ELSE
        /\ eventos' = Without(eventos, {evento_id})
        /\ despesas' = Without(despesas, DespesasOf({evento_id}))
        /\ degustacoes' = Without(degustacoes, DegustacoesOf({evento_id}))
        /\ last' = Reply("delete_evento", cred, 204, "ok", evento_id, NULL, EmptyReq)
        /\ UNCHANGED <<users, tokens, dims, nextId>>

\* The filters shared by get_multi_eventos and count_eventos: a filter whose
\* value is falsy is not applied.
EventoMatches(e, filt) ==
    /\ Truthy(filt.id_cliente) => eventos[e].id_cliente = filt.id_cliente
    /\ Truthy(filt.status_evento) => eventos[e].status_evento = filt.status_evento
    /\ Truthy(filt.data_inicio) => eventos[e].data_evento >= filt.data_inicio
    /\ Truthy(filt.data_fim) => eventos[e].data_evento <= filt.data_fim
    /\ Truthy(filt.id_cidade) => eventos[e].id_cidade = filt.id_cidade
    /\ Truthy(filt.id_buffet) => eventos[e].id_buffet = filt.id_buffet

\* The selection without the ownership filter.
get_multi_eventos_query_Unscoped(cred, filt) == {e \in DOMAIN eventos : EventoMatches(e, filt)}

\* The rows get_multi_eventos selects before ordering and paging.
get_multi_eventos_query(cred, filt) ==
    {e \in DOMAIN eventos :
        /\ users[cred].perfil # ADMINISTRATIVO => eventos[e].id_usuario_criador = cred
        /\ EventoMatches(e, filt)}

\* count_eventos.
count_eventos(cred, filt) ==
    Cardinality({e \in DOMAIN eventos :
        /\ users[cred].perfil # ADMINISTRATIVO => eventos[e].id_usuario_criador = cred
        /\ EventoMatches(e, filt)})

\* The columns of valid_order_fields that this model carries; any other
\* order_by falls back to data_evento.
valid_order_fields == {"data_evento", "status_evento"}

OrderColumn(order_by) == IF order_by \in valid_order_fields THEN order_by ELSE "data_evento"

\* The orders in which the store may return the rows S under ORDER BY col
\* ASC|DESC: rows that tie on col come in any order.
Orderings(S, col, direction) ==
    {s \in [1..Cardinality(S) -> S] :
        /\ \A i, j \in DOMAIN s : i # j => s[i] # s[j]
        /\ \A i, j \in DOMAIN s : i < j =>
              IF direction = "asc" THEN eventos[s[i]][col] <= eventos[s[j]][col]
              ELSE eventos[s[i]][col] >= eventos[s[j]][col]}

\* OFFSET skip LIMIT limit of a sequence.
Page(s, skip, limit) ==
    [i \in 1..(IF Len(s) - skip < 0 THEN 0 ELSE IF Len(s) - skip < limit THEN Len(s) - skip ELSE limit) |-> s[skip + i]]

\* A list handler that rounds the number of pages down.
read_eventos_FloorPages(cred, page, page_size, filt, order_by, order_direction) ==
    LET auth == get_current_active_operational_user(cred)
        req == [page |-> page, page_size |-> page_size, filt |-> filt, order_by |-> order_by, order_direction |-> order_direction]
        skip == (page - 1) * page_size
        total == count_eventos(cred, filt)
        total_pages == IF total > 0 THEN total \div page_size ELSE 0
    IN
    /\ UNCHANGED store
    /\ IF auth.status # 200 THEN
           last' = Reply("read_eventos", cred, auth.status, auth.detail, NULL, NULL, req)
       ELSE
           \E s \in Orderings(get_multi_eventos_query(cred, filt), OrderColumn(order_by), order_direction) :
               last' = Response("read_eventos", cred, 200, "ok", NULL, NULL, req,
                          [items |-> Page(s, skip, page_size), total |-> total, page |-> page,
                           page_size |-> page_size, total_pages |-> total_pages,
                           has_next |-> page < total_pages, has_previous |-> page > 1])

\* routers/eventos.py read_eventos with crud_event.get_multi_eventos and
\* crud_event.count_eventos.
read_eventos(cred, page, page_size, filt, order_by, order_direction) ==
    LET auth == get_current_active_operational_user(cred)
        req == [page |-> page, page_size |-> page_size, filt |-> filt, order_by |-> order_by, order_direction |-> order_direction]
        skip == (page - 1) * page_size
        total == count_eventos(cred, filt)
        total_pages == IF total > 0 THEN (total + page_size - 1) \div page_size ELSE 0
    IN
    /\ UNCHANGED store
    /\ IF auth.status # 200 THEN
           last' = Reply("read_eventos", cred, auth.status, auth.detail, NULL, NULL, req)
       ELSE
           \E s \in Orderings(get_multi_eventos_query(cred, filt), OrderColumn(order_by), order_direction) :
               last' = Response("read_eventos", cred, 200, "ok", NULL, NULL, req,
                          [items |-> Page(s, skip, page_size), total |-> total, page |-> page,
                           page_size |-> page_size, total_pages |-> total_pages,
                           has_next |-> page < total_pages, has_previous |-> page > 1])

----------------------------------------------------------------------------
(* Expenses *)

\* DespesaCreate.model_dump(): the schema's fields only.
DespesaCreateDump(raw) == Restrict(raw, DespesaBaseFields)

\* DespesaUpdate.model_dump(exclude_unset=True).
DespesaUpdateDump(raw) == Restrict(raw, DespesaBaseFields)

\* The child handlers without their second layer.
ChildForbidden_Skipped(cred, child) == FALSE

\* The second authorization layer of the child handlers: the child's own
\* creator against the caller.
ChildForbidden(cred, child) == NotOwnerNorAdmin(cred, child)

\* An add-expense handler that looks the supply item up before the event.
add_despesa_evento_InsumoFirst(cred, evento_id, raw) ==
    LET auth == get_current_active_operational_user(cred)
        perm == IF auth.status = 200 THEN validate_event_permission(evento_id, cred) ELSE auth
        data == DespesaCreateDump(raw)
        row == Override(data, [id_evento |-> evento_id, id_usuario_criador |-> cred])
        id == nextId.despesas
    IN
    IF auth.status # 200 THEN
        /\ last' = Reply("add_despesa", cred, auth.status, auth.detail, evento_id, NULL, raw)
        /\ UNCHANGED store
    ELSE IF data.id_insumo \notin DOMAIN dims["insumos"] THEN
        /\ last' = Reply("add_despesa", cred, 404, "id_insumo", evento_id, NULL, raw)
        /\ UNCHANGED store
    ELSE IF perm.status # 200 THEN
        /\ last' = Reply("add_despesa", cred, perm.status, perm.detail, evento_id, NULL, raw)
        /\ UNCHANGED store
    ELSE IF ~DespesaRowOK(row) THEN
        /\ last' = Reply("add_despesa", cred, 500, "integrity", evento_id, NULL, raw)
        /\ UNCHANGED store
    ELSE
        /\ despesas' = With(despesas, id, row)
        /\ nextId' = [nextId EXCEPT !.despesas = id + 1]
        /\ last' = Reply("add_despesa", cred, 201, "ok", evento_id, id, raw)
        /\ UNCHANGED <<users, tokens, dims, eventos, degustacoes>>

\* routers/eventos.py add_despesa_evento with crud_event.add_despesa_to_evento.
add_despesa_evento(cred, evento_id, raw) ==
    LET auth == get_current_active_operational_user(cred)
        perm == IF auth.status = 200 THEN validate_event_permission(evento_id, cred) ELSE auth
        data == DespesaCreateDump(raw)
        row == Override(data, [id_evento |-> evento_id, id_usuario_criador |-> cred])
        id == nextId.despesas
    IN
    IF perm.status # 200 THEN
        /\ last' = Reply("add_despesa", cred, perm.status, perm.detail, evento_id, NULL, raw)
        /\ UNCHANGED store
    ELSE IF data.id_insumo \notin DOMAIN dims["insumos"] THEN
        /\ last' = Reply("add_despesa", cred, 404, "id_insumo", evento_id, NULL, raw)
        /\ UNCHANGED store
    ELSE IF ~DespesaRowOK(row) THEN
        /\ last' = Reply("add_despesa", cred, 500, "integrity", evento_id, NULL, raw)
        /\ UNCHANGED store
    ELSE
        /\ despesas' = With(despesas, id, row)
        /\ nextId' = [nextId EXCEPT !.despesas = id + 1]
        /\ last' = Reply("add_despesa", cred, 201, "ok", evento_id, id, raw)
        /\ UNCHANGED <<users, tokens, dims, eventos, degustacoes>>

\* A lookup of the expense by its id alone.
despesa_permission_AnyEvent(cred, evento_id, despesa_id) ==
    LET auth == get_current_active_operational_user(cred)
        perm == IF auth.status = 200 THEN validate_event_permission(evento_id, cred) ELSE auth
    IN
    IF perm.status # 200 THEN perm
    ELSE IF despesa_id \notin DOMAIN despesas THEN [status |-> 404, detail |-> "despesa"]
    ELSE IF ChildForbidden(cred, despesas[despesa_id]) THEN [status |-> 403, detail |-> "child_owner"]
    ELSE [status |-> 200, detail |-> "ok"]

\* The checks update_despesa_for_evento and delete_despesa_for_evento make
\* before acting: the event, the caller against the event, the expense among
\* the event's expenses, the caller against the expense.
despesa_permission(cred, evento_id, despesa_id) ==
    LET auth == get_current_active_operational_user(cred)
        perm == IF auth.status = 200 THEN validate_event_permission(evento_id, cred) ELSE auth
    IN
    IF perm.status # 200 THEN perm
    ELSE IF despesa_id \notin DespesasOf({evento_id}) THEN [status |-> 404, detail |-> "despesa"]
    ELSE IF ChildForbidden(cred, despesas[despesa_id]) THEN [status |-> 403, detail |-> "child_owner"]
    ELSE [status |-> 200, detail |-> "ok"]

\* routers/eventos.py update_despesa_for_evento with crud_event.update_despesa.
update_despesa_for_evento(cred, evento_id, despesa_id, raw) ==
    LET perm == despesa_permission(cred, evento_id, despesa_id)
        update_data == DespesaUpdateDump(raw)
        row == Override(despesas[despesa_id], update_data)
    IN
    IF perm.status # 200 THEN
        /\ last' = Reply("update_despesa", cred, perm.status, perm.detail, evento_id, despesa_id, raw)
        /\ UNCHANGED store
    ELSE IF "id_insumo" \in DOMAIN update_data /\ Truthy(update_data.id_insumo) /\ update_data.id_insumo \notin DOMAIN dims["insumos"] THEN
        /\ last' = Reply("update_despesa", cred, 404, "id_insumo", evento_id, despesa_id, raw)
        /\ UNCHANGED store
    ELSE IF ~DespesaRowOK(row) THEN
        /\ last' = Reply("update_despesa", cred, 500, "integrity", evento_id, despesa_id, raw)
        /\ UNCHANGED store
    ELSE
        /\ despesas' = [despesas EXCEPT ![despesa_id] = row]
        /\ last' = Reply("update_despesa", cred, 200, "ok", evento_id, despesa_id, raw)
        /\ UNCHANGED <<users, tokens, dims, eventos, degustacoes, nextId>>

\* routers/eventos.py delete_despesa_for_evento with crud_event.delete_despesa.
delete_despesa_for_evento(cred, evento_id, despesa_id) ==
    LET perm == despesa_permission(cred, evento_id, despesa_id) IN
    IF perm.status # 200 THEN
        /\ last' = Reply("delete_despesa", cred, perm.status, perm.detail, evento_id, despesa_id, EmptyReq)
        /\ UNCHANGED store
    ELSE
        /\ despesas' = Without(despesas, {despesa_id})
        /\ last' = Reply("delete_despesa", cred, 204, "ok", evento_id, despesa_id, EmptyReq)
        /\ UNCHANGED <<users, tokens, dims, eventos, degustacoes, nextId>>

----------------------------------------------------------------------------
(* Tastings *)

\* DegustacaoCreate.model_dump(): status defaults to "Agendada".
DegustacaoCreateDump(raw) ==
    [f \in DegustacaoBaseFields |-> IF f \in DOMAIN raw THEN raw[f] ELSE AGENDADA]

\* DegustacaoUpdate.model_dump(exclude_unset=True).
DegustacaoUpdateDump(raw) == Restrict(raw, DegustacaoBaseFields)

\* routers/eventos.py add_degustacao_evento with
\* crud_event.add_degustacao_to_evento; a None status takes the column default.
add_degustacao_evento(cred, evento_id, raw) ==
    LET auth == get_current_active_operational_user(cred)
        perm == IF auth.status = 200 THEN validate_event_permission(evento_id, cred) ELSE auth
        data == DegustacaoCreateDump(raw)
        row == [status |-> IF data.status = NULL THEN AGENDADA ELSE data.status, id_evento |-> evento_id, id_usuario_criador |-> cred]
        id == nextId.degustacoes
    IN
    IF perm.status # 200 THEN
        /\ last' = Reply("add_degustacao", cred, perm.status, perm.detail, evento_id, NULL, raw)
        /\ UNCHANGED store
    ELSE IF ~DegustacaoRowOK(row) THEN
        /\ last' = Reply("add_degustacao", cred, 500, "integrity", evento_id, NULL, raw)
        /\ UNCHANGED store
    ELSE
        /\ degustacoes' = With(degustacoes, id, row)
        /\ nextId' = [nextId EXCEPT !.degustacoes = id + 1]
        /\ last' = Reply("add_degustacao", cred, 201, "ok", evento_id, id, raw)
        /\ UNCHANGED <<users, tokens, dims, eventos, despesas>>

\* The checks of update_degustacao_for_evento and delete_degustacao_for_evento.
degustacao_permission(cred, evento_id, degustacao_id) ==
    LET auth == get_current_active_operational_user(cred)
        perm == IF auth.status = 200 THEN validate_event_permission(evento_id, cred) ELSE auth
    IN
    IF perm.status # 200 THEN perm
    ELSE IF degustacao_id \notin DegustacoesOf({evento_id}) THEN [status |-> 404, detail |-> "degustacao"]
    ELSE IF ChildForbidden(cred, degustacoes[degustacao_id]) THEN [status |-> 403, detail |-> "child_owner"]
    ELSE [status |-> 200, detail |-> "ok"]

\* routers/eventos.py update_degustacao_for_evento with crud_event.update_degustacao.
update_degustacao_for_evento(cred, evento_id, degustacao_id, raw) ==
    LET perm == degustacao_permission(cred, evento_id, degustacao_id)
        row == Override(degustacoes[degustacao_id], DegustacaoUpdateDump(raw))
    IN
    IF perm.status # 200 THEN
        /\ last' = Reply("update_degustacao", cred, perm.status, perm.detail, evento_id, degustacao_id, raw)
        /\ UNCHANGED store
    ELSE IF ~DegustacaoRowOK(row) THEN
        /\ last' = Reply("update_degustacao", cred, 500, "integrity", evento_id, degustacao_id, raw)
        /\ UNCHANGED store
    ELSE
        /\ degustacoes' = [degustacoes EXCEPT ![degustacao_id] = row]
        /\ last' = Reply("update_degustacao", cred, 200, "ok", evento_id, degustacao_id, raw)
        /\ UNCHANGED <<users, tokens, dims, eventos, despesas, nextId>>

\* routers/eventos.py delete_degustacao_for_evento with crud_event.delete_degustacao.
delete_degustacao_for_evento(cred, evento_id, degustacao_id) ==
    LET perm == degustacao_permission(cred, evento_id, degustacao_id) IN
    IF perm.status # 200 THEN
        /\ last' = Reply("delete_degustacao", cred, perm.status, perm.detail, evento_id, degustacao_id, EmptyReq)
        /\ UNCHANGED store
    ELSE
        /\ degustacoes' = Without(degustacoes, {degustacao_id})
        /\ last' = Reply("delete_degustacao", cred, 204, "ok", evento_id, degustacao_id, EmptyReq)
        /\ UNCHANGED <<users, tokens, dims, eventos, despesas, nextId>>

----------------------------------------------------------------------------
(* Login and user management: routers/login.py, routers/users.py, crud_user.py *)

\* crud_user.get_user_by_username / get_user_by_email: the ids found (at most
\* one: both columns are unique).
get_user_by_username(username) == {u \in DOMAIN users : users[u].username = username}

get_user_by_email(email) == {u \in DOMAIN users : users[u].email = email}

\* security.verify_password against the stored hash of the user's password.
verify_password(plain_password, u) == users[u].password = plain_password

\* usuarios: username and email are unique.
UserRowOK(id, r) ==
    \A u \in DOMAIN users \ {id} : users[u].username # r.username /\ users[u].email # r.email

\* login_access_token: a token whose subject is the user's id is issued.
login_access_token(username, password) ==
    LET found == get_user_by_username(username)
        req == [username |-> username, password |-> password]
    IN
    IF found = {} \/ \E u \in found : ~verify_password(password, u) THEN
        /\ last' = Reply("login", BadToken, 401, "credentials", NULL, NULL, req)
        /\ UNCHANGED store
    ELSE LET u == CHOOSE x \in found : TRUE IN
        IF ~users[u].is_active THEN
            /\ last' = Reply("login", BadToken, 400, "inactive", u, NULL, req)
            /\ UNCHANGED store
        ELSE
            /\ tokens' = tokens \cup {u}
            /\ last' = Reply("login", BadToken, 200, "ok", u, NULL, req)
            /\ UNCHANGED <<users, dims, eventos, despesas, degustacoes, nextId>>

\* routers/users.py read_current_user (GET /users/me).
read_current_user(cred) ==
    LET auth == get_current_active_user(cred) IN
    /\ last' = Reply("read_current_user", cred, auth.status, auth.detail, NULL, NULL, EmptyReq)
    /\ UNCHANGED store

\* routers/users.py read_user_by_id.
read_user_by_id(cred, user_id) ==
    LET auth == get_current_active_admin_user(cred) IN
    /\ last' = IF auth.status # 200 THEN Reply("read_user_by_id", cred, auth.status, auth.detail, user_id, NULL, EmptyReq)
               ELSE IF user_id \notin DOMAIN users THEN Reply("read_user_by_id", cred, 404, "user", user_id, NULL, EmptyReq)
               ELSE Reply("read_user_by_id", cred, 200, "ok", user_id, NULL, EmptyReq)
    /\ UNCHANGED store

\* routers/users.py create_user with crud_user.create_user: only the email is
\* looked up beforehand; a duplicate username fails the commit.
create_user(cred, user_in) ==
    LET auth == get_current_active_admin_user(cred)
        id == nextId.users
    IN
    IF auth.status # 200 THEN
        /\ last' = Reply("create_user", cred, auth.status, auth.detail, NULL, NULL, user_in)
        /\ UNCHANGED store
    ELSE IF get_user_by_email(user_in.email) # {} THEN
        /\ last' = Reply("create_user", cred, 400, "email", NULL, NULL, user_in)
        /\ UNCHANGED store
    ELSE IF ~UserRowOK(id, user_in) THEN
        /\ last' = Reply("create_user", cred, 500, "integrity", NULL, NULL, user_in)
        /\ UNCHANGED store
    ELSE
        /\ users' = With(users, id, user_in)
        /\ nextId' = [nextId EXCEPT !.users = id + 1]
        /\ last' = Reply("create_user", cred, 201, "ok", id, NULL, user_in)
        /\ UNCHANGED <<tokens, dims, eventos, despesas, degustacoes>>

\* The fields of UserUpdate that this model carries.
UserUpdateFields == {"email", "is_active", "perfil"}

\* routers/users.py update_user_by_admin with crud_user.update_user.
update_user_by_admin(cred, user_id, raw) ==
    LET auth == get_current_active_admin_user(cred)
        row == Override(users[user_id], Restrict(raw, UserUpdateFields))
    IN
    IF auth.status # 200 THEN
        /\ last' = Reply("update_user", cred, auth.status, auth.detail, user_id, NULL, raw)
        /\ UNCHANGED store
    ELSE IF user_id \notin DOMAIN users THEN
        /\ last' = Reply("update_user", cred, 404, "user", user_id, NULL, raw)
        /\ UNCHANGED store
    ELSE IF ~UserRowOK(user_id, row) THEN
        /\ last' = Reply("update_user", cred, 500, "integrity", user_id, NULL, raw)
        /\ UNCHANGED store
    ELSE
        /\ users' = [users EXCEPT ![user_id] = row]
        /\ last' = Reply("update_user", cred, 200, "ok", user_id, NULL, raw)
        /\ UNCHANGED <<tokens, dims, eventos, despesas, degustacoes, nextId>>

\* User relationships to the dimension tables that cascade nothing.
CascadeDims_None(U) == [k \in Kinds |-> {}]

\* The rows the ORM deletes with user U: User's relationships to the seven
\* dimension tables, to eventos, despesas and degustacoes all cascade
\* "all, delete-orphan", and a deleted event takes its children with it.
CascadeDims(U) == [k \in Kinds |-> {d \in DOMAIN dims[k] : dims[k][d].id_usuario_criador = U}]

CascadeEventos(U) == {e \in DOMAIN eventos : eventos[e].id_usuario_criador = U}

CascadeDespesas(U) ==
    {d \in DOMAIN despesas : despesas[d].id_usuario_criador = U} \cup DespesasOf(CascadeEventos(U))

CascadeDegustacoes(U) ==
    {d \in DOMAIN degustacoes : degustacoes[d].id_usuario_criador = U} \cup DegustacoesOf(CascadeEventos(U))

\* An event that outlives U loses each reference to a dimension row deleted
\* with U: the dimension's `eventos` relationship has no delete cascade, so the
\* ORM sets the foreign key to NULL.
Nullified(e, U) ==
    [f \in DOMAIN eventos[e] |->
        IF f \in RefFields /\ eventos[e][f] \in CascadeDims(U)[KindOf(f)] THEN NULL ELSE eventos[e][f]]

\* Whether the store accepts the flush that deletes U: no surviving event is
\* left with a NULL client or venue (NOT NULL columns), and no surviving
\* expense still references a deleted supply item (foreign key).
DeleteUserAccepted(U) ==
    /\ \A e \in DOMAIN eventos \ CascadeEventos(U) :
          \A f \in RefFields \cap EventoNotNull : Nullified(e, U)[f] # NULL
    /\ \A d \in DOMAIN despesas \ CascadeDespesas(U) :
          despesas[d].id_insumo \notin CascadeDims(U)["insumos"]

\* A delete that only clears the active flag.
delete_user_Deactivate(user_id) == [users EXCEPT ![user_id].is_active = FALSE]

\* crud_user.delete_user: the row is deleted.
delete_user(user_id) == Without(users, {user_id})

\* routers/users.py delete_user_by_admin with crud_user.delete_user.  The
\* handler catches nothing: an IntegrityError of the commit is a 500.
delete_user_by_admin(cred, user_id) ==
    LET auth == get_current_active_admin_user(cred) IN
    IF auth.status # 200 THEN
        /\ last' = Reply("delete_user", cred, auth.status, auth.detail, user_id, NULL, EmptyReq)
        /\ UNCHANGED store
    ELSE IF user_id \notin DOMAIN users THEN
        /\ last' = Reply("delete_user", cred, 404, "user", user_id, NULL, EmptyReq)
        /\ UNCHANGED store
    ELSE IF user_id = cred THEN
        /\ last' = Reply("delete_user", cred, 403, "self", user_id, NULL, EmptyReq)
        /\ UNCHANGED store
    ELSE IF ~DeleteUserAccepted(user_id) THEN
        /\ last' = Reply("delete_user", cred, 500, "integrity", user_id, NULL, EmptyReq)
        /\ UNCHANGED store
    ELSE
        /\ users' = delete_user(user_id)
        /\ dims' = [k \in Kinds |-> Without(dims[k], CascadeDims(user_id)[k])]
        /\ eventos' = [e \in DOMAIN eventos \ CascadeEventos(user_id) |-> Nullified(e, user_id)]
        /\ despesas' = Without(despesas, CascadeDespesas(user_id))
        /\ degustacoes' = Without(degustacoes, CascadeDegustacoes(user_id))
        /\ last' = Reply("delete_user", cred, 204, "ok", user_id, NULL, EmptyReq)
        /\ UNCHANGED <<tokens, nextId>>

----------------------------------------------------------------------------
(* Dimensions: the generic CRUD router over the seven dimension tables *)

\* The descriptive fields of a dimension's create and update schemas, as one
\* field.  id_usuario_criador is not a field of either schema.
DimFields == {"descricao"}

\* item_in.model_dump(): the fields a body carries that the schema does not
\* declare are ignored.
DimDump(raw) == Restrict(raw, DimFields)

\* CRUDBase.create as called by create_item: the row is built from the dump
\* and id_usuario_criador is set from the caller afterwards.
CRUDBase_create(obj_in_data, user_id) ==
    Override([descricao |-> NULL], Override(obj_in_data, [id_usuario_criador |-> user_id]))

\* An update that adds the dump's values to the stored ones.
CRUDBase_update_Additive(db_obj, update_data) ==
    [f \in DOMAIN db_obj |-> IF f \in DOMAIN update_data THEN db_obj[f] + update_data[f] ELSE db_obj[f]]

\* An update that skips the keys whose value is None.
CRUDBase_update_SkipNone(db_obj, update_data) ==
    [f \in DOMAIN db_obj |->
        IF f \in DOMAIN update_data /\ update_data[f] # NULL THEN update_data[f] ELSE db_obj[f]]

\* CRUDBase.update: every key of the dump is assigned to the row.
CRUDBase_update(db_obj, update_data) == Override(db_obj, update_data)

\* A dimension table accepts a row whose descriptive column (nullable=False)
\* holds a value.
DimRowOK(r) == r.descricao # NULL

\* What a dimension request asks: the body, and which table's router got it.
DimReq(kind, raw) == Override(raw, [kind |-> kind])

\* routers/dimensions.py create_item.
create_item(kind, cred, raw) ==
    LET auth == get_current_active_user(cred)
        id == nextId.dims[kind]
    IN
    IF auth.status # 200 THEN
        /\ last' = Reply("create_item", cred, auth.status, auth.detail, NULL, NULL, DimReq(kind, raw))
        /\ UNCHANGED store
    ELSE IF ~DimRowOK(CRUDBase_create(DimDump(raw), cred)) THEN
        /\ last' = Reply("create_item", cred, 500, "integrity", NULL, NULL, DimReq(kind, raw))
        /\ UNCHANGED store
    ELSE
        /\ dims' = [dims EXCEPT ![kind] = With(@, id, CRUDBase_create(DimDump(raw), cred))]
        /\ nextId' = [nextId EXCEPT !.dims[kind] = id + 1]
        /\ last' = Reply("create_item", cred, 201, "ok", id, NULL, DimReq(kind, raw))
        /\ UNCHANGED <<users, tokens, eventos, despesas, degustacoes>>

\* routers/dimensions.py update_item.
update_item(kind, cred, item_id, raw) ==
    LET auth == get_current_active_user(cred) IN
    IF auth.status # 200 THEN
        /\ last' = Reply("update_item", cred, auth.status, auth.detail, item_id, NULL, DimReq(kind, raw))
        /\ UNCHANGED store
    ELSE IF item_id \notin DOMAIN dims[kind] THEN
        /\ last' = Reply("update_item", cred, 404, "item", item_id, NULL, DimReq(kind, raw))
        /\ UNCHANGED store
    ELSE IF NotOwnerNorAdmin(cred, dims[kind][item_id]) THEN
        /\ last' = Reply("update_item", cred, 403, "owner", item_id, NULL, DimReq(kind, raw))
        /\ UNCHANGED store
    ELSE IF ~DimRowOK(CRUDBase_update(dims[kind][item_id], DimDump(raw))) THEN
        /\ last' = Reply("update_item", cred, 500, "integrity", item_id, NULL, DimReq(kind, raw))
        /\ UNCHANGED store
    ELSE
        /\ dims' = [dims EXCEPT ![kind][item_id] = CRUDBase_update(@, DimDump(raw))]
        /\ last' = Reply("update_item", cred, 200, "ok", item_id, NULL, DimReq(kind, raw))
        /\ UNCHANGED <<users, tokens, eventos, despesas, degustacoes, nextId>>

\* routers/dimensions.py read_item.
read_item(kind, cred, item_id) ==
    LET auth == get_current_active_user(cred)
        req == DimReq(kind, EmptyReq)
    IN
    /\ UNCHANGED store
    /\ last' = IF auth.status # 200 THEN Reply("read_item", cred, auth.status, auth.detail, item_id, NULL, req)
               ELSE IF item_id \notin DOMAIN dims[kind] THEN Reply("read_item", cred, 404, "item", item_id, NULL, req)
               ELSE IF NotOwnerNorAdmin(cred, dims[kind][item_id]) THEN Reply("read_item", cred, 403, "owner", item_id, NULL, req)
               ELSE Reply("read_item", cred, 200, "ok", item_id, NULL, req)

\* The orders in which a query without ORDER BY may return the rows S.
AnyOrder(S) ==
    {s \in [1..Cardinality(S) -> S] : \A i, j \in DOMAIN s : i # j => s[i] # s[j]}

\* A listing that keeps, for an operational caller, the rows it created.
read_items_OwnOnly(kind, cred, skip, limit) ==
    LET auth == get_current_active_user(cred)
        req == DimReq(kind, [skip |-> skip, limit |-> limit])
    IN
    /\ UNCHANGED store
    /\ IF auth.status # 200 THEN
           last' = Reply("read_items", cred, auth.status, auth.detail, NULL, NULL, req)
       ELSE
           \E s \in AnyOrder({i \in DOMAIN dims[kind] : ~NotOwnerNorAdmin(cred, dims[kind][i])}) :
               last' = Response("read_items", cred, 200, "ok", NULL, NULL, req,
                          [EmptyBody EXCEPT !.items = Page(s, skip, limit)])

\* routers/dimensions.py read_items with CRUDBase.get_multi: no filter, no
\* ordering, OFFSET skip LIMIT limit.
read_items(kind, cred, skip, limit) ==
    LET auth == get_current_active_user(cred)
        req == DimReq(kind, [skip |-> skip, limit |-> limit])
    IN
    /\ UNCHANGED store
    /\ IF auth.status # 200 THEN
           last' = Reply("read_items", cred, auth.status, auth.detail, NULL, NULL, req)
       ELSE
           \E s \in AnyOrder(DOMAIN dims[kind]) :
               last' = Response("read_items", cred, 200, "ok", NULL, NULL, req,
                          [EmptyBody EXCEPT !.items = Page(s, skip, limit)])

\* The event fields that refer to table `kind`.
RefsTo(kind) == {f \in RefFields : KindOf(f) = kind}

\* An event after row item_id of table `kind` is deleted: the dimension's
\* `eventos` relationship has no delete cascade, so the ORM sets the foreign
\* key of each event that referred to the row to NULL.
NullifiedRef(e, kind, item_id) ==
    [f \in DOMAIN eventos[e] |->
        IF f \in RefsTo(kind) /\ eventos[e][f] = item_id THEN NULL ELSE eventos[e][f]]

\* A store that accepts every delete.
DeleteItemAccepted_Unchecked(kind, item_id) == TRUE

\* Whether the store accepts the flush that deletes the row: no event is
\* left with a NULL in a nullable=False reference, and no expense refers to
\* the row (Insumo has no relationship to Despesa: the foreign key stands).
DeleteItemAccepted(kind, item_id) ==
    /\ \A e \in DOMAIN eventos : \A f \in RefsTo(kind) \cap EventoNotNull : eventos[e][f] # item_id
    /\ kind = "insumos" => \A d \in DOMAIN despesas : despesas[d].id_insumo # item_id

\* routers/dimensions.py delete_item with CRUDBase.remove.  The handler
\* catches nothing: an IntegrityError of the commit is a 500.
delete_item(kind, cred, item_id) ==
    LET auth == get_current_active_user(cred)
        req == DimReq(kind, EmptyReq)
    IN
    IF auth.status # 200 THEN
        /\ last' = Reply("delete_item", cred, auth.status, auth.detail, item_id, NULL, req)
        /\ UNCHANGED store
    ELSE IF item_id \notin DOMAIN dims[kind] THEN
        /\ last' = Reply("delete_item", cred, 404, "item", item_id, NULL, req)
        /\ UNCHANGED store
    ELSE IF NotOwnerNorAdmin(cred, dims[kind][item_id]) THEN
        /\ last' = Reply("delete_item", cred, 403, "owner", item_id, NULL, req)
        /\ UNCHANGED store
    ELSE IF ~DeleteItemAccepted(kind, item_id) THEN
        /\ last' = Reply("delete_item", cred, 500, "integrity", item_id, NULL, req)
        /\ UNCHANGED store
    ELSE
        /\ dims' = [dims EXCEPT ![kind] = Without(@, {item_id})]
        /\ eventos' = [e \in DOMAIN eventos |-> NullifiedRef(e, kind, item_id)]
        /\ last' = Reply("delete_item", cred, 200, "ok", item_id, NULL, req)
        /\ UNCHANGED <<users, tokens, despesas, degustacoes, nextId>>


----------------------------------------------------------------------------
(* Initial state and bounds *)

\* Rows a run may insert into usuarios, eventos, despesas, degustacoes and
\* the dimension tables together.
MaxRows == 2

\* The largest page number and page size a list request asks for.
MaxPage == 2

\* The requests that may be in flight together, and one that is not.
Slots == {1, 2}

IdleRequest ==
    [step |-> "idle", op |-> "none", cred |-> NULL, id |-> NULL, raw |-> EmptyReq,
     seen |-> EmptyReq, kids |-> [despesas |-> {}, degustacoes |-> {}], status |-> 0, db |-> FALSE]

NewUser(username, email, perfil, is_active) ==
    [username |-> username, email |-> email, password |-> "pw", perfil |-> perfil, is_active |-> is_active]

\* A store the API reaches from the bootstrap administrator
\* (create_superuser.py): it has created two operational users, all three
\* have logged in, and every dimension table holds one row.
Init ==
    /\ users = (1 :> NewUser("admin", "admin@brumas.com", ADMINISTRATIVO, TRUE))
               @@ (2 :> NewUser("ana", "ana@brumas.com", OPERACIONAL, TRUE))
               @@ (3 :> NewUser("bia", "bia@brumas.com", OPERACIONAL, TRUE))
    /\ tokens = {1, 2, 3}
    /\ dims = [k \in Kinds |->
                 (1 :> [id_usuario_criador |-> IF k = "clientes" THEN 2 ELSE IF k = "cidades" THEN 3 ELSE 1,
                        descricao |-> 1])]
    /\ eventos = [e \in {} |-> NULL]
    /\ despesas = [d \in {} |-> NULL]
    /\ degustacoes = [d \in {} |-> NULL]
    /\ nextId = [users |-> 4, eventos |-> 1, despesas |-> 1, degustacoes |-> 1, dims |-> [k \in Kinds |-> 2]]
    /\ last = Reply("none", BadToken, 0, "none", NULL, NULL, EmptyReq)
    /\ clock = 0
    /\ stamps = [dims |-> [k \in Kinds |-> (1 :> [created_at |-> 0, updated_at |-> 0])],
                 eventos |-> [e \in {} |-> NULL]]
    /\ requests = [r \in Slots |-> IdleRequest]

\* Credentials a request may carry: a token issued by login.
Callers == tokens

RECURSIVE SumOver(_, _)
SumOver(f, S) ==
    IF S = {} THEN 0
    ELSE LET x == CHOOSE y \in S : TRUE IN f[x] + SumOver(f, S \ {x})

\* Rows inserted so far by requests: users (the table starts with three),
\* events, expenses, tastings and dimension rows (each dimension table starts
\* with row 1).
RowsInserted ==
    (nextId.users - 4) + (nextId.eventos - 1) + (nextId.despesas - 1) + (nextId.degustacoes - 1)
    + SumOver([k \in Kinds |-> nextId.dims[k] - 2], Kinds)

\* Ids a request may name: every id handed out so far and the next one, which
\* names no row.
EventoIds == 1..nextId.eventos

DespesaIds == 1..nextId.despesas

DegustacaoIds == 1..nextId.degustacoes

----------------------------------------------------------------------------
(* The event aggregate under requests of three callers *)

BaseEvento == [id_cliente |-> 1, id_local_evento |-> 1, data_evento |-> 1]

\* Bodies of POST /eventos: a plain one and one crafted to name a creator.
EventoCreateBodies == {BaseEvento, Override(BaseEvento, [id_usuario_criador |-> 1])}

\* Bodies of PATCH /eventos/{id}.
EventoUpdateBodies == {[status_evento |-> CONFIRMADO], [status_evento |-> CONFIRMADO, id_usuario_criador |-> 1]}

DespesaCreateBodies == {[id_insumo |-> 1, vlr_total_pago |-> 1]}

DespesaUpdateBodies == {[vlr_total_pago |-> 2, id_usuario_criador |-> 1]}

DegustacaoCreateBodies == {[status |-> AGENDADA]}

DegustacaoUpdateBodies == {[status |-> REALIZADA, id_usuario_criador |-> 1]}

CreateEvento == \E c \in Callers, raw \in EventoCreateBodies : RowsInserted < MaxRows /\ create_evento(c, raw) /\ UNCHANGED <<time, requests>>

ReadEvento == \E c \in Callers, e \in EventoIds : read_evento(c, e) /\ UNCHANGED <<time, requests>>

UpdateEvento == \E c \in Callers, e \in EventoIds, raw \in EventoUpdateBodies : update_evento(c, e, raw) /\ UNCHANGED <<time, requests>>

DeleteEvento == \E c \in Callers, e \in EventoIds : delete_evento(c, e) /\ UNCHANGED <<time, requests>>

AddDespesa == \E c \in Callers, e \in EventoIds, raw \in DespesaCreateBodies : RowsInserted < MaxRows /\ add_despesa_evento(c, e, raw) /\ UNCHANGED <<time, requests>>

UpdateDespesa == \E c \in Callers, e \in EventoIds, d \in DespesaIds, raw \in DespesaUpdateBodies : update_despesa_for_evento(c, e, d, raw) /\ UNCHANGED <<time, requests>>

DeleteDespesa == \E c \in Callers, e \in EventoIds, d \in DespesaIds : delete_despesa_for_evento(c, e, d) /\ UNCHANGED <<time, requests>>

AddDegustacao == \E c \in Callers, e \in EventoIds, raw \in DegustacaoCreateBodies : RowsInserted < MaxRows /\ add_degustacao_evento(c, e, raw) /\ UNCHANGED <<time, requests>>

UpdateDegustacao == \E c \in Callers, e \in EventoIds, d \in DegustacaoIds, raw \in DegustacaoUpdateBodies : update_degustacao_for_evento(c, e, d, raw) /\ UNCHANGED <<time, requests>>

DeleteDegustacao == \E c \in Callers, e \in EventoIds, d \in DegustacaoIds : delete_degustacao_for_evento(c, e, d) /\ UNCHANGED <<time, requests>>

Next ==
    \/ CreateEvento
    \/ ReadEvento
    \/ UpdateEvento
    \/ DeleteEvento
    \/ AddDespesa
    \/ UpdateDespesa
    \/ DeleteDespesa
    \/ AddDegustacao
    \/ UpdateDegustacao
    \/ DeleteDegustacao

Spec == Init /\ [][Next]_vars

----------------------------------------------------------------------------
(* Properties of the event aggregate *)

\* The caller of the request served in this step passed the gate: the token
\* names an existing, active user.
CallerActive == last'.cred \in DOMAIN users /\ users[last'.cred].is_active

CallerIsAdmin == users[last'.cred].perfil = ADMINISTRATIVO

EventoOps == {"read_evento", "update_evento", "delete_evento"}

ChildWriteOps == {"update_despesa", "delete_despesa", "update_degustacao", "delete_degustacao"}

AggregateUnchanged == UNCHANGED <<eventos, despesas, degustacoes>>

\* C2.  For read, update and delete of an event by a caller that passed the
\* gate: an id that names no event is answered 404 whoever asks; an existing
\* event asked for by a caller that is neither administrative nor its creator
\* is answered 403 and the event and its children stay as they were; for an
\* administrative caller or the creator the operation goes through (never 403,
\* never "event not found"; a read answers 200, a delete removes the event).
C2_EventPermission ==
    [][(last'.op \in EventoOps /\ CallerActive) =>
        IF last'.id \notin DOMAIN eventos THEN
            last'.status = 404 /\ last'.detail = "evento" /\ AggregateUnchanged
        ELSE IF ~CallerIsAdmin /\ eventos[last'.id].id_usuario_criador # last'.cred THEN
            last'.status = 403 /\ AggregateUnchanged
        ELSE
            /\ last'.status # 403
            /\ last'.detail # "evento"
            /\ last'.op = "read_evento" => last'.status = 200
            /\ last'.op = "delete_evento" => last'.status = 204 /\ last'.id \notin DOMAIN eventos'
            /\ (last'.op = "update_evento" /\ last'.status = 200 /\ "status_evento" \in DOMAIN last'.req) =>
                  eventos'[last'.id].status_evento = last'.req.status_evento]_vars

\* An operational caller was refused the update of an event it did not create.
C2_Witness ==
    /\ last.op = "update_evento" /\ last.status = 403 /\ last.detail = "owner"
    /\ users[last.cred].perfil = OPERACIONAL
    /\ eventos[last.id].id_usuario_criador # last.cred

\* The child an update or delete request names, when it is a child of the
\* event the request names.
ChildTable(op) == IF op \in {"update_despesa", "delete_despesa"} THEN despesas ELSE degustacoes

IsChildOf(op, child, evento_id) ==
    child \in DOMAIN ChildTable(op) /\ ChildTable(op)[child].id_evento = evento_id

\* C3.  Two layers on children.  A caller that is operational and created the
\* event, asking to update or delete an expense or tasting of that event which
\* somebody else created, is answered 403 and the child stays as it was; that
\* caller's read or update of the event itself is not refused.  An
\* administrative caller is refused at neither layer: its update is answered
\* 200 and its delete removes the child.
C3_TwoLayers ==
    [][CallerActive =>
        /\ (/\ last'.op \in ChildWriteOps
            /\ last'.id \in DOMAIN eventos
            /\ IsChildOf(last'.op, last'.id2, last'.id)
            /\ ~CallerIsAdmin
            /\ eventos[last'.id].id_usuario_criador = last'.cred
            /\ ChildTable(last'.op)[last'.id2].id_usuario_criador # last'.cred)
           => (last'.status = 403 /\ UNCHANGED <<despesas, degustacoes>>)
        /\ (/\ last'.op \in {"read_evento", "update_evento"}
            /\ last'.id \in DOMAIN eventos
            /\ eventos[last'.id].id_usuario_criador = last'.cred)
           => last'.status # 403
        /\ (/\ last'.op \in ChildWriteOps
            /\ last'.id \in DOMAIN eventos
            /\ IsChildOf(last'.op, last'.id2, last'.id)
            /\ CallerIsAdmin)
           => /\ last'.status \in {200, 204}
              /\ last'.op = "delete_despesa" => last'.id2 \notin DOMAIN despesas'
              /\ last'.op = "delete_degustacao" => last'.id2 \notin DOMAIN degustacoes']_vars

\* The creator of an event was refused the update of an expense that another
\* user added to it.
C3_Witness ==
    /\ last.op = "update_despesa" /\ last.status = 403 /\ last.detail = "child_owner"
    /\ users[last.cred].perfil = OPERACIONAL
    /\ eventos[last.id].id_usuario_criador = last.cred
    /\ despesas[last.id2].id_usuario_criador # last.cred

\* Event ids handed out earlier whose event is gone.
DeletedEventos == (1..(nextId.eventos - 1)) \ DOMAIN eventos

RequestsOnEvento == EventoOps \cup ChildWriteOps \cup {"add_despesa", "add_degustacao"}

\* C6.  Cascade delete.  A delete of event E answered 204 leaves no event E,
\* no expense and no tasting of E; from then on E stays absent (ids are not
\* handed out twice), no child of E exists, and every request on E or on a
\* child under E is answered 404.
C6_CascadeDelete ==
    [][/\ (last'.op = "delete_evento" /\ last'.status = 204) =>
            /\ last'.id \in DOMAIN eventos
            /\ last'.id \notin DOMAIN eventos'
            /\ \A d \in DOMAIN despesas' : despesas'[d].id_evento # last'.id
            /\ \A d \in DOMAIN degustacoes' : degustacoes'[d].id_evento # last'.id
       /\ \A e \in DeletedEventos :
            /\ e \notin DOMAIN eventos'
            /\ \A d \in DOMAIN despesas' : despesas'[d].id_evento # e
            /\ \A d \in DOMAIN degustacoes' : degustacoes'[d].id_evento # e
            /\ (last'.op \in RequestsOnEvento /\ last'.id = e /\ CallerActive) => last'.status = 404]_vars

\* An event was deleted after an expense had been added in the run, and no
\* expense is left.
C6_Witness ==
    /\ last.op = "delete_evento" /\ last.status = 204
    /\ nextId.despesas > 1
    /\ DOMAIN despesas = {}
    /\ DeletedEventos # {}

----------------------------------------------------------------------------
(* Creator attribution: creates and updates over every kind of row *)

\* The dimension tables the requests of this specification go to.
CreatorKinds == {"clientes"}

DimIds(kind) == 1..nextId.dims[kind]

\* Bodies of POST and PATCH on a dimension; the crafted ones carry an
\* id_usuario_criador key.
DimCreateBodies == {[descricao |-> 1, id_usuario_criador |-> 1]}

DimUpdateBodies == {[descricao |-> 2, id_usuario_criador |-> 1]}

CreateItem == \E k \in CreatorKinds, c \in Callers, raw \in DimCreateBodies : RowsInserted < MaxRows /\ create_item(k, c, raw) /\ UNCHANGED <<time, requests>>

UpdateItem == \E k \in CreatorKinds, c \in Callers, raw \in DimUpdateBodies : \E i \in DimIds(k) : update_item(k, c, i, raw) /\ UNCHANGED <<time, requests>>

NextCreator ==
    \/ CreateItem
    \/ UpdateItem
    \/ CreateEvento
    \/ UpdateEvento
    \/ AddDespesa
    \/ UpdateDespesa
    \/ AddDegustacao
    \/ UpdateDegustacao

SpecCreator == Init /\ [][NextCreator]_vars

\* The creator column of a table is what it was for the rows that stay, and
\* the caller of the request served in this step for the rows that are new.
CreatorKept(t, tNew) ==
    \A id \in DOMAIN tNew :
        tNew[id].id_usuario_criador = IF id \in DOMAIN t THEN t[id].id_usuario_criador ELSE last'.cred

\* C7.  id_usuario_criador is immutable.  Every request that creates or
\* updates an event, an expense, a tasting or a dimension row, whatever its
\* body carries, leaves the creator of every existing row as it was and gives
\* a new row the id of the caller that created it.
C7_CreatorImmutable ==
    [][/\ CreatorKept(eventos, eventos')
       /\ CreatorKept(despesas, despesas')
       /\ CreatorKept(degustacoes, degustacoes')
       /\ \A k \in Kinds : CreatorKept(dims[k], dims'[k])]_vars

\* An update whose body carried id_usuario_criador was accepted, and the row
\* still has another creator than the body asked for.
C7_Witness ==
    /\ last.op = "update_evento" /\ last.status = 200
    /\ "id_usuario_criador" \in DOMAIN last.req
    /\ eventos[last.id].id_usuario_criador # last.req.id_usuario_criador
    /\ eventos[last.id].status_evento = last.req.status_evento

----------------------------------------------------------------------------
(* Listing events *)

NoFilter ==
    [id_cliente |-> NULL, status_evento |-> NULL, data_inicio |-> NULL, data_fim |-> NULL,
     id_cidade |-> NULL, id_buffet |-> NULL]

ListFilters == {NoFilter, [NoFilter EXCEPT !.status_evento = CONFIRMADO]}

\* Orderings a list request asks for; "nome" is not one of valid_order_fields.
ListOrders ==
    {[order_by |-> "status_evento", order_direction |-> "asc"],
     [order_by |-> "nome", order_direction |-> "desc"]}

ListCreateBodies == {BaseEvento, Override(BaseEvento, [data_evento |-> 2, status_evento |-> CONFIRMADO])}

CreateEventoListed == \E c \in Callers, raw \in ListCreateBodies : RowsInserted < MaxRows /\ create_evento(c, raw) /\ UNCHANGED <<time, requests>>

ReadEventos ==
    \E c \in Callers, page \in 1..MaxPage, page_size \in 1..MaxPage, filt \in ListFilters, o \in ListOrders :
        read_eventos(c, page, page_size, filt, o.order_by, o.order_direction) /\ UNCHANGED <<time, requests>>

NextList ==
    \/ CreateEventoListed
    \/ ReadEventos

SpecList == Init /\ [][NextList]_vars

\* The events a caller is entitled to see under a filter: for an operational
\* caller its own, for an administrative caller everybody's.
Visible(c, filt) ==
    {e \in DOMAIN eventos :
        /\ EventoMatches(e, filt)
        /\ users[c].perfil = ADMINISTRATIVO \/ eventos[e].id_usuario_criador = c}

Min(a, b) == IF a < b THEN a ELSE b

\* C1.  Ownership scope of the event list.  The items of an answered list
\* request are distinct events that match the request's filters and, for an
\* operational caller, were created by the caller; the total is the number of
\* all such events, the page holds as many of them as its window allows, and a
\* first page at least as large as the total holds every one of them: for an
\* administrative caller, every matching event whoever created it.
C1_ListScope ==
    (last.op = "read_eventos" /\ last.status = 200) =>
        LET items == last.body.items
            scope == Visible(last.cred, last.req.filt)
            n == Cardinality(scope)
            skip == (last.req.page - 1) * last.req.page_size
        IN
        /\ \A i \in DOMAIN items : items[i] \in scope
        /\ \A i, j \in DOMAIN items : i # j => items[i] # items[j]
        /\ last.body.total = n
        /\ Len(items) = Min(last.req.page_size, IF n - skip < 0 THEN 0 ELSE n - skip)
        /\ (last.req.page = 1 /\ last.req.page_size >= n) => {items[i] : i \in DOMAIN items} = scope

\* An operational caller got its own event while a matching event of another
\* user was in the store.
C1_Witness ==
    /\ last.op = "read_eventos" /\ last.status = 200
    /\ users[last.cred].perfil = OPERACIONAL
    /\ Len(last.body.items) = 1
    /\ \E e \in DOMAIN eventos :
          eventos[e].id_usuario_criador # last.cred /\ EventoMatches(e, last.req.filt)

----------------------------------------------------------------------------
(* Referential validation of event bodies *)

\* Ids a body may carry for a reference: 1 names the row every dimension
\* table starts with, 0 and 2 name no row.
RefValues == {0, 1, 2}

RefCreateBodies ==
    {Override(BaseEvento, [id_cliente |-> a]) : a \in RefValues}
    \cup {Override(BaseEvento, [id_local_evento |-> 2]), Override(BaseEvento, [id_cidade |-> 2])}

\* Patches that carry one reference, or two, next to a valid status change.
RefUpdateBodies ==
    {Override([status_evento |-> CONFIRMADO], [f \in {g} |-> a]) :
        g \in {"id_cliente", "id_cidade"}, a \in RefValues \cup {NULL}}
    \cup {[status_evento |-> CONFIRMADO, id_cidade |-> 1, id_buffet |-> 2]}

CreateEventoRefs == \E c \in Callers, raw \in RefCreateBodies : RowsInserted < MaxRows /\ create_evento(c, raw) /\ UNCHANGED <<time, requests>>

UpdateEventoRefs == \E c \in Callers, e \in EventoIds, raw \in RefUpdateBodies : update_evento(c, e, raw) /\ UNCHANGED <<time, requests>>

NextRefs ==
    \/ CreateEventoRefs
    \/ UpdateEventoRefs

SpecRefs == Init /\ [][NextRefs]_vars

\* The reference fields of a body that name a row that does not exist.
Dangling(req) ==
    {f \in RefFields \cap DOMAIN req : req[f] # NULL /\ req[f] \notin DOMAIN dims[KindOf(f)]}

\* C4.  Creating an event whose client id or venue id names no existing row
\* is answered 404 and leaves the set of events as it was.
C4_CreateMissingRef ==
    [][(/\ last'.op = "create_evento"
        /\ CallerActive
        /\ Dangling(last'.req) \cap {"id_cliente", "id_local_evento"} # {})
       => (last'.status = 404 /\ eventos' = eventos)]_vars

\* A create whose client id is 0 was answered 500: the id passed the
\* validation unchecked and the store refused the row.
C4_Witness ==
    /\ last.op = "create_evento" /\ last.status = 500
    /\ last.req.id_cliente = 0
    /\ last.req.id_local_evento = 1

\* C5.  An update whose patch carries a reference to a row that does not
\* exist, by a caller allowed to modify the event, is answered 404 and
\* changes no field of the stored event.
C5_UpdateAllOrNothing ==
    [][(/\ last'.op = "update_evento"
        /\ CallerActive
        /\ last'.id \in DOMAIN eventos
        /\ CallerIsAdmin \/ eventos[last'.id].id_usuario_criador = last'.cred
        /\ Dangling(last'.req) # {})
       => (last'.status = 404 /\ eventos' = eventos)]_vars

\* A patch whose city id is 0 was answered 500 and the event kept its status.
C5_Witness ==
    /\ last.op = "update_evento" /\ last.status = 500
    /\ "id_cidade" \in DOMAIN last.req
    /\ last.req.id_cidade = 0
    /\ eventos[last.id].status_evento # last.req.status_evento

\* What does hold of both handlers: a request with a dangling reference
\* changes no event, and is answered 404 when the first dangling id it
\* carries is not 0.
RefsNoPartialWrite ==
    [][(/\ last'.op \in {"create_evento", "update_evento"}
        /\ CallerActive
        /\ Dangling(last'.req) # {})
       => /\ eventos' = eventos
          /\ last'.status \in {403, 404, 500}
          /\ (\A f \in Dangling(last'.req) : last'.req[f] # 0) => last'.status \in {403, 404}]_vars

----------------------------------------------------------------------------
(* User accounts: login, creation and deletion *)

\* Credentials a request may carry: an issued token or a string that does
\* not decode.
Creds == tokens \cup {BadToken}

UserIds == 1..nextId.users

\* Bodies of POST /users: the username of a seeded account, with that
\* account's email or a fresh one, under a password of its own.
NewUserBodies ==
    {[NewUser("ana", e, OPERACIONAL, TRUE) EXCEPT !.password = "novo"] : e \in {"ana@brumas.com", "novo@brumas.com"}}

Login == \E username \in {"ana"}, password \in {"pw", "novo"} : login_access_token(username, password) /\ UNCHANGED <<time, requests>>

ReadCurrentUser == \E c \in Creds : read_current_user(c) /\ UNCHANGED <<time, requests>>

CreateUser == \E c \in Creds, user_in \in NewUserBodies : RowsInserted < MaxRows /\ create_user(c, user_in) /\ UNCHANGED <<time, requests>>

DeleteUser == \E c \in Creds, u \in UserIds : delete_user_by_admin(c, u) /\ UNCHANGED <<time, requests>>

CreateEventoByUser == \E c \in Creds : RowsInserted < MaxRows /\ create_evento(c, BaseEvento) /\ UNCHANGED <<time, requests>>

NextUsers ==
    \/ Login
    \/ ReadCurrentUser
    \/ CreateUser
    \/ DeleteUser
    \/ CreateEventoByUser

SpecUsers == Init /\ [][NextUsers]_vars

\* C8.  An administrative caller's delete of its own account is answered 403
\* and the account stays; its delete of any other existing user is answered
\* 204 and removes that user.
C8_DeleteUser ==
    [][(last'.op = "delete_user" /\ CallerActive /\ CallerIsAdmin) =>
        /\ last'.id = last'.cred => (last'.status = 403 /\ last'.cred \in DOMAIN users')
        /\ (last'.id # last'.cred /\ last'.id \in DOMAIN users) =>
              (last'.status = 204 /\ last'.id \notin DOMAIN users')]_vars

\* The delete of an existing user other than the caller was answered 500 and
\* the user is still there.
C8_Witness ==
    /\ last.op = "delete_user" /\ last.status = 500
    /\ last.id # last.cred
    /\ last.id \in DOMAIN users

\* The part of C8 that holds: the administrator's own account is never
\* deleted by its own request.
SelfDeleteRefused ==
    [][(last'.op = "delete_user" /\ CallerActive /\ CallerIsAdmin /\ last'.id = last'.cred) =>
        (last'.status = 403 /\ UNCHANGED store)]_vars

\* User ids handed out earlier whose account is gone.
DeletedUsers == (1..(nextId.users - 1)) \ DOMAIN users

\* The username each seeded account was created with (no request changes a
\* username).
SeedUsername(u) == CASE u = 1 -> "admin" [] u = 2 -> "ana" [] u = 3 -> "bia"

\* C9 as stated.  Once a seeded user is deleted, every later login with its
\* username fails.
C9_UsernameDead ==
    [][\A u \in DeletedUsers \cap {1, 2, 3} :
        (last'.op = "login" /\ last'.req.username = SeedUsername(u)) => last'.status # 200]_vars

\* C9, amended.  A delete answered 204 leaves no account of U, and from then
\* on: U's id names no account again; every request carrying a token issued to
\* U is answered 404 by get_current_user and changes nothing; no login issues
\* a token for U; and a login with U's username is answered 401 as long as no
\* account has that username.
C9_DeletedCannotAuthenticate ==
    [][/\ (last'.op = "delete_user" /\ last'.status = 204) =>
            (last'.id \in DOMAIN users /\ last'.id \in DeletedUsers')
       /\ \A u \in DeletedUsers :
            /\ u \in DeletedUsers'
            /\ (last'.op # "login" /\ last'.cred = u) =>
                  (last'.status = 404 /\ last'.detail = "user_not_found" /\ UNCHANGED store)
            /\ (last'.op = "login" /\ last'.status = 200) => last'.id # u
       /\ (last'.op = "login" /\ \A v \in DOMAIN users : users[v].username # last'.req.username) =>
            (last'.status = 401 /\ UNCHANGED store)]_vars

\* A token issued to a user that has since been deleted was presented and
\* refused.
C9_Witness ==
    /\ last.op = "read_current_user" /\ last.status = 404
    /\ last.cred \in DeletedUsers
    /\ last.cred \in tokens

----------------------------------------------------------------------------
(* The gate under changes of role and active flag *)

UserUpdateBodies ==
    {[is_active |-> FALSE], [is_active |-> TRUE], [perfil |-> ADMINISTRATIVO], [perfil |-> OPERACIONAL]}

UpdateUser == \E c \in Creds, u \in UserIds, raw \in UserUpdateBodies : update_user_by_admin(c, u, raw) /\ UNCHANGED <<time, requests>>

ReadUserById == \E c \in Creds, u \in UserIds : read_user_by_id(c, u) /\ UNCHANGED <<time, requests>>

ReadEventoGated == \E c \in Creds, e \in EventoIds : read_evento(c, e) /\ UNCHANGED <<time, requests>>

NextGate ==
    \/ UpdateUser
    \/ DeleteUser
    \/ ReadUserById
    \/ ReadCurrentUser
    \/ ReadEventoGated

SpecGate == Init /\ [][NextGate]_vars

\* The endpoints behind get_current_active_admin_user.
AdminOps == {"create_user", "read_user_by_id", "update_user", "delete_user"}

\* C10.  Order of the gate.  On every endpoint but login: a token that does
\* not decode is answered 403 and a token whose user is gone 404
\* (authenticate); a caller whose active flag is false is answered 400
\* "inactive" whatever its role and whatever the endpoint (require-active); a
\* role refusal is only given to a caller that exists and is active, on an
\* administrative endpoint, and is not administrative (require-role).  A
\* refusal by the gate changes nothing.
C10_GateOrder ==
    [][last'.op # "login" =>
        /\ last'.cred = BadToken =>
              (last'.status = 403 /\ last'.detail = "credentials" /\ UNCHANGED store)
        /\ (last'.cred # BadToken /\ last'.cred \notin DOMAIN users) =>
              (last'.status = 404 /\ last'.detail = "user_not_found" /\ UNCHANGED store)
        /\ (last'.cred \in DOMAIN users /\ ~users[last'.cred].is_active) =>
              (last'.status = 400 /\ last'.detail = "inactive" /\ UNCHANGED store)
        /\ last'.detail = "role" =>
              /\ last'.status = 403
              /\ last'.cred \in DOMAIN users
              /\ users[last'.cred].is_active
              /\ users[last'.cred].perfil # ADMINISTRATIVO
              /\ last'.op \in AdminOps
              /\ UNCHANGED store
        /\ (/\ last'.op \in AdminOps
            /\ last'.cred \in DOMAIN users
            /\ users[last'.cred].is_active
            /\ users[last'.cred].perfil # ADMINISTRATIVO) => last'.detail = "role"]_vars

\* An inactive operational user called an administrative endpoint and was
\* answered "inactive".
C10_Witness ==
    /\ last.op = "update_user" /\ last.status = 400 /\ last.detail = "inactive"
    /\ last.cred \in DOMAIN users
    /\ users[last.cred].perfil = OPERACIONAL
    /\ ~users[last.cred].is_active

----------------------------------------------------------------------------
(* Dimension rows under the owner-or-admin rule *)

\* The dimension tables the requests of this specification go to: one that
\* events must refer to and one that they may.
DimsKinds == {"clientes", "cidades"}

DimsUpdateBodies == {[descricao |-> 2], [descricao |-> NULL]}

CreateEventoWithCity == \E c \in {1} : RowsInserted < MaxRows /\ create_evento(c, Override(BaseEvento, [id_cidade |-> 1])) /\ UNCHANGED <<time, requests>>

CreateItemDims == \E c \in {3} : RowsInserted < MaxRows /\ create_item("clientes", c, [descricao |-> 1]) /\ UNCHANGED <<time, requests>>

ReadItem == \E k \in DimsKinds, c \in Callers : \E i \in DimIds(k) : read_item(k, c, i) /\ UNCHANGED <<time, requests>>

ReadItems == \E k \in {"clientes"}, c \in Callers, skip \in {0, 1}, limit \in 1..MaxPage : read_items(k, c, skip, limit) /\ UNCHANGED <<time, requests>>

UpdateItemDims == \E k \in DimsKinds, c \in Callers, raw \in DimsUpdateBodies : \E i \in DimIds(k) : update_item(k, c, i, raw) /\ UNCHANGED <<time, requests>>

DeleteItem == \E k \in DimsKinds, c \in Callers : \E i \in DimIds(k) : delete_item(k, c, i) /\ UNCHANGED <<time, requests>>

NextDims ==
    \/ CreateEventoWithCity
    \/ CreateItemDims
    \/ ReadItem
    \/ ReadItems
    \/ UpdateItemDims
    \/ DeleteItem

SpecDims == Init /\ [][NextDims]_vars

DimItemOps == {"read_item", "update_item", "delete_item"}

\* The request served in this step was carried out: a read answered 200, an
\* update answered 200 with the row holding the patch, a delete answered 200
\* with the row gone.
DimPerformed ==
    /\ last'.status = 200
    /\ last'.op = "read_item" => UNCHANGED store
    /\ last'.op = "update_item" =>
          /\ last'.id \in DOMAIN dims'[last'.req.kind]
          /\ dims'[last'.req.kind][last'.id].descricao = last'.req.descricao
    /\ last'.op = "delete_item" => last'.id \notin DOMAIN dims'[last'.req.kind]

\* The write asked for in this step is one the store refuses: a delete of a
\* row that an event refers to as its client or venue or an expense as its
\* supply item, or an update that sets the descriptive column to null.
DimStoreRefuses ==
    \/ /\ last'.op = "delete_item"
       /\ \/ \E e \in DOMAIN eventos :
                \/ last'.req.kind = "clientes" /\ eventos[e].id_cliente = last'.id
                \/ last'.req.kind = "locais_evento" /\ eventos[e].id_local_evento = last'.id
          \/ \E d \in DOMAIN despesas : last'.req.kind = "insumos" /\ despesas[d].id_insumo = last'.id
    \/ last'.op = "update_item" /\ last'.req.descricao = NULL

C12_ListNotFiltered ==
    last.op = "read_items" =>
        /\ last.status = 200 <=> (last.cred \in DOMAIN users /\ users[last.cred].is_active)
        /\ last.status = 200 =>
              LET rows == DOMAIN dims[last.req.kind]
                  items == last.body.items
                  left == Cardinality(rows) - last.req.skip
              IN
              /\ \A i \in DOMAIN items : items[i] \in rows
              /\ \A i, j \in DOMAIN items : i # j => items[i] # items[j]
              /\ Len(items) = Min(last.req.limit, IF left < 0 THEN 0 ELSE left)

\* The list answered to an operational caller holds a row another user
\* created, which get-by-id refuses to that caller.
C12_Witness ==
    /\ last.op = "read_items" /\ last.status = 200
    /\ users[last.cred].perfil = OPERACIONAL
    /\ \E i \in DOMAIN last.body.items :
          NotOwnerNorAdmin(last.cred, dims[last.req.kind][last.body.items[i]])

----------------------------------------------------------------------------
(* Pagination of the event list *)

ListAnswered == last.op = "read_eventos" /\ last.status = 200

\* This step answers another page of the walk the previous request began:
\* same caller, filters, ordering and page size, on the same store.
NextPageOfWalk ==
    /\ ListAnswered
    /\ last'.op = "read_eventos" /\ last'.status = 200
    /\ last'.cred = last.cred
    /\ last'.req.filt = last.req.filt
    /\ last'.req.order_by = last.req.order_by
    /\ last'.req.order_direction = last.req.order_direction
    /\ last'.req.page_size = last.req.page_size
    /\ last'.req.page # last.req.page
    /\ UNCHANGED store

ItemsOf(r) == {r.body.items[i] : i \in DOMAIN r.body.items}

\* What one page holds: the reported total is the size of the caller's
\* filtered scope, the page holds distinct events of the scope, as many as
\* its window leaves, and none beyond total_pages.  The sizes of pages
\* 1..total_pages therefore sum to the total.
PageSizesCover ==
    ListAnswered =>
        LET scope == Visible(last.cred, last.req.filt)
            T == Cardinality(scope)
            skip == (last.req.page - 1) * last.req.page_size
        IN
        /\ last.body.total = T
        /\ ItemsOf(last) \subseteq scope
        /\ Cardinality(ItemsOf(last)) = Len(last.body.items)
        /\ Len(last.body.items) = Min(last.req.page_size, IF T - skip < 0 THEN 0 ELSE T - skip)
        /\ last.req.page > last.body.total_pages => last.body.items = <<>>

\* C13.  Pagination coverage.  For a fixed store, caller, filter set and page
\* size, the total is the number of events in the caller's filtered scope,
\* pages 1..total_pages together hold each of those events exactly once (so
\* no event is on two pages of the walk), and a page beyond total_pages is
\* empty.
C13_PaginationCoverage ==
    [][/\ PageSizesCover'
       /\ NextPageOfWalk => ItemsOf(last) \cap ItemsOf(last') = {}]_vars

\* Two pages of one walk over a scope of two events were answered one after
\* the other.
C13_Witness ==
    /\ ListAnswered
    /\ last.req.page = 2 /\ last.req.page_size = 1
    /\ last.body.total = 2
    /\ Len(last.body.items) = 1

\* ceil(T / S): the least number of pages of S that hold T items.
CeilDiv(T, S) == CHOOSE n \in 0..T : n * S >= T /\ \A m \in 0..T : m * S >= T => n <= m

\* C14.  Envelope arithmetic of an answered list request: the page starts
\* skip = (page - 1) * page_size items into the scope, total_pages is
\* ceil(total / page_size) (0 for an empty scope), has_next is
\* page < total_pages and has_previous is page > 1; has_next is false on the
\* last page and on every page past it, and an empty scope gives
\* total_pages = 0 and has_next false.
C14_Envelope ==
    ListAnswered =>
        LET b == last.body
            T == Cardinality(Visible(last.cred, last.req.filt))
            skip == (last.req.page - 1) * last.req.page_size
        IN
        /\ b.total = T
        /\ b.page = last.req.page /\ b.page_size = last.req.page_size
        /\ Len(b.items) = Min(b.page_size, IF T - skip < 0 THEN 0 ELSE T - skip)
        /\ b.total_pages = CeilDiv(T, b.page_size)
        /\ b.has_next <=> b.page < b.total_pages
        /\ b.has_previous <=> b.page > 1
        /\ b.page >= b.total_pages => ~b.has_next
        /\ T = 0 => b.total_pages = 0 /\ ~b.has_next

\* A page past the last one of a scope whose size is not a multiple of the
\* page size.
C14_Witness ==
    /\ ListAnswered
    /\ last.body.total = 1 /\ last.body.page_size = 2 /\ last.body.page = 2
    /\ last.body.total_pages = 1
    /\ ~last.body.has_next /\ last.body.has_previous

----------------------------------------------------------------------------
(* Timestamps *)

\* The latest reading of the clock the model follows.
MaxClock == 4

\* CRUDBase.create stamps a dimension row itself, from two readings of
\* datetime.utcnow(): updated_at from the first, created_at from the second.
CRUDBase_create_stamps(t1, t2) == [updated_at |-> t1, created_at |-> t2]

\* An INSERT that leaves both columns to server_default=func.now(): one
\* statement, one now().
server_default_stamps(t) == [created_at |-> t, updated_at |-> t]

\* An onupdate that never fires.
onupdate_stamps_Never(st, changed, t) == st

\* onupdate=func.now(): updated_at is set by the UPDATE statement, and the
\* session's flush emits one only for a row with a net change.
onupdate_stamps(st, changed, t) == IF changed THEN [st EXCEPT !.updated_at = t] ELSE st

StampedCallers == {1, 2}

StampedDimBodies == {[descricao |-> 1], [descricao |-> 2], EmptyReq}

StampedEventoBodies == {[status_evento |-> CONFIRMADO], [status_evento |-> REALIZADO], EmptyReq}

\* POST /clientes/: the second reading of the clock is the first or a later one.
CreateItemStamped ==
    \E c \in StampedCallers, d \in {0, 1} :
        /\ clock + 1 + d <= MaxClock
        /\ RowsInserted < MaxRows
        /\ create_item("clientes", c, [descricao |-> 1])
        /\ IF last'.status = 201 THEN
               /\ stamps' = [stamps EXCEPT !.dims["clientes"] =
                                With(@, last'.id, CRUDBase_create_stamps(clock + 1, clock + 1 + d))]
               /\ clock' = clock + 1 + d
           ELSE UNCHANGED time
        /\ UNCHANGED requests

UpdateItemStamped ==
    \E c \in StampedCallers, raw \in StampedDimBodies : \E i \in DimIds("clientes") :
        /\ clock < MaxClock
        /\ update_item("clientes", c, i, raw)
        /\ IF last'.status = 200 THEN
               /\ stamps' = [stamps EXCEPT !.dims["clientes"][i] =
                                onupdate_stamps(@, dims'["clientes"][i] # dims["clientes"][i], clock + 1)]
               /\ clock' = clock + 1
           ELSE UNCHANGED time
        /\ UNCHANGED requests

CreateEventoStamped ==
    \E c \in StampedCallers :
        /\ clock < MaxClock
        /\ RowsInserted < MaxRows
        /\ create_evento(c, BaseEvento)
        /\ IF last'.status = 201 THEN
               /\ stamps' = [stamps EXCEPT !.eventos = With(@, last'.id, server_default_stamps(clock + 1))]
               /\ clock' = clock + 1
           ELSE UNCHANGED time
        /\ UNCHANGED requests

UpdateEventoStamped ==
    \E c \in StampedCallers, e \in EventoIds, raw \in StampedEventoBodies :
        /\ clock < MaxClock
        /\ update_evento(c, e, raw)
        /\ IF last'.status = 200 THEN
               /\ stamps' = [stamps EXCEPT !.eventos[e] =
                                onupdate_stamps(@, eventos'[e] # eventos[e], clock + 1)]
               /\ clock' = clock + 1
           ELSE UNCHANGED time
        /\ UNCHANGED requests

NextStamps ==
    \/ CreateItemStamped
    \/ UpdateItemStamped
    \/ CreateEventoStamped
    \/ UpdateEventoStamped

SpecStamps == Init /\ [][NextStamps]_vars

\* C15.  created_at <= updated_at for every row of every table in every
\* reachable state: right after a create, the generic dimension create
\* included, and after any sequence of updates.
C15_CreatedBeforeUpdated ==
    /\ \A k \in Kinds : \A i \in DOMAIN stamps.dims[k] :
          stamps.dims[k][i].created_at <= stamps.dims[k][i].updated_at
    /\ \A e \in DOMAIN stamps.eventos :
          stamps.eventos[e].created_at <= stamps.eventos[e].updated_at

\* A dimension row was just created through the generic create and carries
\* both timestamps.
C15_Witness ==
    /\ last.op = "create_item" /\ last.status = 201
    /\ last.id \in DOMAIN stamps.dims[last.req.kind]
    /\ stamps.dims[last.req.kind][last.id].created_at > 0

\* An update of a dimension row or an event was answered 200 in this step.
UpdateAnswered == last'.op \in {"update_item", "update_evento"} /\ last'.status = 200

StampOf(st, r) == IF r.op = "update_item" THEN st.dims[r.req.kind][r.id] ELSE st.eventos[r.id]

RowOf(ds, es, r) == IF r.op = "update_item" THEN ds[r.req.kind][r.id] ELSE es[r.id]

SameUpdateAgain ==
    /\ last.op \in {"update_item", "update_evento"} /\ last.status = 200
    /\ last'.op = last.op /\ last'.cred = last.cred /\ last'.id = last.id /\ last'.req = last.req

\* C17.  Update is idempotent: the same partial-update payload applied a
\* second time in succession is answered like the first and leaves the data
\* fields of the row, and every other row, as the first application left
\* them.
C17_UpdateIdempotent ==
    [][SameUpdateAgain => last'.status = 200 /\ UNCHANGED store]_vars

\* A payload that sets a field was applied to a dimension row for the second
\* time in succession: the first application changed the row one tick ago,
\* the second changed nothing.
C17_Witness ==
    /\ last.op = "update_item" /\ last.status = 200
    /\ "descricao" \in DOMAIN last.req
    /\ dims[last.req.kind][last.id].descricao = last.req.descricao
    /\ clock >= 2
    /\ stamps.dims[last.req.kind][last.id].updated_at = clock - 1

----------------------------------------------------------------------------
(* Statistics: events by status *)

\* The events a by-status report is about: the caller's own unless it is
\* administrative, inside the date range when one is given.
StatsScope(cred, data_inicio, data_fim) ==
    {e \in DOMAIN eventos :
        /\ users[cred].perfil # ADMINISTRATIVO => eventos[e].id_usuario_criador = cred
        /\ Truthy(data_inicio) => eventos[e].data_evento >= data_inicio
        /\ Truthy(data_fim) => eventos[e].data_evento <= data_fim}

\* (count / total) * 100 as the float division gives it, not rounded, carried
\* here to four decimals: the value in units of 0.0001 percent.
Percentual(count, total) == (count * 1000000) \div total

\* count / total * 100 rounded to two decimals, in the same unit.
PercentRounded2(count, total) == (((count * 20000) + total) \div (2 * total)) * 100

\* crud_event.get_eventos_por_status: [] for an empty scope, else one dict per
\* status of the GROUP BY.  Contract values are not part of this model; the
\* sum is carried as 0.
crud_get_eventos_por_status(cred, data_inicio, data_fim) ==
    LET scope == StatsScope(cred, data_inicio, data_fim)
        total_eventos_geral == Cardinality(scope)
    IN
    IF total_eventos_geral = 0 THEN {}
    ELSE {[status_evento |-> st,
           total_eventos |-> Cardinality({e \in scope : eventos[e].status_evento = st}),
           percentual |-> Percentual(Cardinality({e \in scope : eventos[e].status_evento = st}), total_eventos_geral),
           valor_total_contratos |-> 0] : st \in {eventos[e].status_evento : e \in scope}}

\* The fields of schemas.EventosPorStatus, all required.
EventosPorStatusFields == {"status", "total", "percentual", "valor_total"}

\* Serialisation through response_model=List[EventosPorStatus]: every row
\* must carry every required field of the schema.
ResponseModelValid(rows) == \A r \in rows : EventosPorStatusFields \subseteq DOMAIN r

\* routers/eventos.py get_eventos_por_status (GET /eventos/stats/por-status):
\* the gate, the crud function, then the response model.
get_eventos_por_status(cred, data_inicio, data_fim) ==
    LET auth == get_current_active_operational_user(cred)
        req == [data_inicio |-> data_inicio, data_fim |-> data_fim]
        rows == crud_get_eventos_por_status(cred, data_inicio, data_fim)
    IN
    /\ UNCHANGED store
    /\ IF auth.status # 200 THEN
           last' = Reply("por_status", cred, auth.status, auth.detail, NULL, NULL, req)
       ELSE IF ~ResponseModelValid(rows) THEN
           last' = Reply("por_status", cred, 500, "response", NULL, NULL, req)
       ELSE
           last' = Reply("por_status", cred, 200, "ok", NULL, NULL, req)

\* The most events the model of the report holds.
MaxStatRows == 3

StatsCallers == {1, 2}

StatsCreateBodies == {BaseEvento, Override(BaseEvento, [data_evento |-> 2, status_evento |-> CONFIRMADO])}

CreateEventoStats ==
    \E c \in StatsCallers, raw \in StatsCreateBodies :
        nextId.eventos <= MaxStatRows /\ create_evento(c, raw) /\ UNCHANGED <<time, requests>>

PorStatus ==
    \E c \in StatsCallers, data_inicio \in {NULL, 2}, data_fim \in {NULL, 1} :
        get_eventos_por_status(c, data_inicio, data_fim) /\ UNCHANGED <<time, requests>>

NextStats ==
    \/ CreateEventoStats
    \/ PorStatus

SpecStats == Init /\ [][NextStats]_vars

\* The rows of the report the last request asked for, before serialisation.
ReportRows == crud_get_eventos_por_status(last.cred, last.req.data_inicio, last.req.data_fim)

ReportScope == StatsScope(last.cred, last.req.data_inicio, last.req.data_fim)

\* What the report's rows hold before serialisation: none for an empty
\* scope, else one per status in scope with the number of in-scope events of
\* that status; the counts sum to the size of the scope.
ReportCounts ==
    last.op = "por_status" =>
        /\ ReportScope = {} <=> ReportRows = {}
        /\ {r.status_evento : r \in ReportRows} = {eventos[e].status_evento : e \in ReportScope}
        /\ \A r \in ReportRows :
              r.total_eventos = Cardinality({e \in ReportScope : eventos[e].status_evento = r.status_evento})
        /\ \A r1, r2 \in ReportRows : r1.status_evento = r2.status_evento => r1 = r2
        /\ SumOver([st \in 1..4 |-> Cardinality({e \in ReportScope : eventos[e].status_evento = st})],
                   {r.status_evento : r \in ReportRows}) = Cardinality(ReportScope)

\* C18.  The by-status report answers the empty list when the caller's scope
\* holds no event, and otherwise one row per status in scope, with the number
\* of in-scope events of that status as count and count / total * 100 rounded
\* to two decimals as percent; the counts sum to the total in scope.
C18_ByStatus ==
    last.op = "por_status" =>
        /\ last.status = 200
        /\ ReportCounts
        /\ \A r \in ReportRows :
              r.percentual = PercentRounded2(r.total_eventos, Cardinality(ReportScope))

\* The report was asked over a scope of three events, one of them of a status
\* of its own.
C18_Witness ==
    /\ last.op = "por_status"
    /\ Cardinality(ReportScope) = 3
    /\ \E r \in ReportRows : r.total_eventos = 1

\* The percent of the report's rows is the rounded one.
ReportPercentRounded ==
    last.op = "por_status" =>
        \A r \in ReportRows : r.percentual = PercentRounded2(r.total_eventos, Cardinality(ReportScope))

\* Every answered report is the empty one.
ReportAnsweredOnlyEmpty == (last.op = "por_status" /\ last.status = 200) => ReportScope = {}

----------------------------------------------------------------------------
(* Referential integrity of events *)

IntegrityCallers == {1, 2}

IntegrityKinds == {"clientes", "cidades"}

IntegrityCreateBodies == {Override(BaseEvento, [id_cidade |-> 1]), Override(BaseEvento, [id_cidade |-> 2])}

IntegrityUpdateBodies == {[id_cliente |-> NULL], [id_local_evento |-> NULL, id_cidade |-> 1], [id_cidade |-> 0]}

CreateEventoIntegrity ==
    \E c \in IntegrityCallers, raw \in IntegrityCreateBodies :
        RowsInserted < MaxRows /\ create_evento(c, raw) /\ UNCHANGED <<time, requests>>

UpdateEventoIntegrity ==
    \E c \in IntegrityCallers, e \in EventoIds, raw \in IntegrityUpdateBodies :
        update_evento(c, e, raw) /\ UNCHANGED <<time, requests>>

DeleteItemIntegrity ==
    \E k \in IntegrityKinds, c \in IntegrityCallers : \E i \in DimIds(k) :
        delete_item(k, c, i) /\ UNCHANGED <<time, requests>>

DeleteUserIntegrity ==
    \E u \in {2, 3} : delete_user_by_admin(1, u) /\ UNCHANGED <<time, requests>>

NextIntegrity ==
    \/ CreateEventoIntegrity
    \/ UpdateEventoIntegrity
    \/ DeleteItemIntegrity
    \/ DeleteUserIntegrity

SpecIntegrity == Init /\ [][NextIntegrity]_vars

----------------------------------------------------------------------------
(* Adding an expense to an event *)

ExpenseBodies ==
    {[id_insumo |-> 1, vlr_total_pago |-> 1], [id_insumo |-> 2, vlr_total_pago |-> 1],
     [id_insumo |-> 0, vlr_total_pago |-> 1]}

CreateEventoExpense == \E c \in {2, 3} : RowsInserted < MaxRows /\ create_evento(c, BaseEvento) /\ UNCHANGED <<time, requests>>

AddDespesaExpense ==
    \E c \in Callers, e \in EventoIds, raw \in ExpenseBodies :
        RowsInserted < MaxRows /\ add_despesa_evento(c, e, raw) /\ UNCHANGED <<time, requests>>

DeleteEventoExpense == \E c \in Callers, e \in EventoIds : delete_evento(c, e) /\ UNCHANGED <<time, requests>>

NextExpense ==
    \/ CreateEventoExpense
    \/ AddDespesaExpense
    \/ DeleteEventoExpense

SpecExpense == Init /\ [][NextExpense]_vars

\* C20.  Add-expense checks, in this order: the parent event exists (else
\* 404), the caller is administrative or the event's creator (else 403), the
\* supply item exists (else 404).  A refused request inserts nothing; an
\* accepted one inserts exactly one expense, of the event named in the path
\* and created by the caller.
C20_AddExpenseOrder ==
    [][(last'.op = "add_despesa" /\ CallerActive) =>
        IF last'.id \notin DOMAIN eventos THEN
            last'.status = 404 /\ last'.detail = "evento" /\ UNCHANGED store
        ELSE IF ~CallerIsAdmin /\ eventos[last'.id].id_usuario_criador # last'.cred THEN
            last'.status = 403 /\ UNCHANGED store
        ELSE IF last'.req.id_insumo \notin DOMAIN dims["insumos"] THEN
            last'.status = 404 /\ last'.detail = "id_insumo" /\ UNCHANGED store
        ELSE
            /\ last'.status = 201
            /\ last'.id2 \notin DOMAIN despesas
            /\ DOMAIN despesas' = DOMAIN despesas \cup {last'.id2}
            /\ \A d \in DOMAIN despesas : despesas'[d] = despesas[d]
            /\ despesas'[last'.id2].id_evento = last'.id
            /\ despesas'[last'.id2].id_usuario_criador = last'.cred
            /\ despesas'[last'.id2].id_insumo = last'.req.id_insumo
            /\ UNCHANGED <<users, tokens, dims, eventos, degustacoes>>]_vars

\* An administrator added an expense to an event another user created: the
\* expense carries the administrator's id, not the event creator's.
C20_Witness ==
    /\ last.op = "add_despesa" /\ last.status = 201
    /\ last.id \in DOMAIN eventos /\ last.id2 \in DOMAIN despesas
    /\ despesas[last.id2].id_evento = last.id
    /\ despesas[last.id2].id_usuario_criador = last.cred
    /\ eventos[last.id].id_usuario_criador # last.cred

----------------------------------------------------------------------------
(* Children addressed under an event that is not theirs *)

\* The most rows the requests of this specification insert.
MaxCrossRows == 3

CrossCallers == {1, 2}

CreateEventoCross == \E c \in {2} : RowsInserted < MaxCrossRows /\ create_evento(c, BaseEvento) /\ UNCHANGED <<time, requests>>

AddDespesaCross ==
    \E c \in CrossCallers, e \in EventoIds, raw \in DespesaCreateBodies :
        RowsInserted < MaxCrossRows /\ add_despesa_evento(c, e, raw) /\ UNCHANGED <<time, requests>>

AddDegustacaoCross ==
    \E c \in CrossCallers, e \in EventoIds, raw \in DegustacaoCreateBodies :
        RowsInserted < MaxCrossRows /\ add_degustacao_evento(c, e, raw) /\ UNCHANGED <<time, requests>>

UpdateDespesaCross ==
    \E c \in Callers, e \in EventoIds, d \in DespesaIds, raw \in DespesaUpdateBodies :
        update_despesa_for_evento(c, e, d, raw) /\ UNCHANGED <<time, requests>>

DeleteDespesaCross ==
    \E c \in Callers, e \in EventoIds, d \in DespesaIds : delete_despesa_for_evento(c, e, d) /\ UNCHANGED <<time, requests>>

UpdateDegustacaoCross ==
    \E c \in Callers, e \in EventoIds, d \in DegustacaoIds, raw \in DegustacaoUpdateBodies :
        update_degustacao_for_evento(c, e, d, raw) /\ UNCHANGED <<time, requests>>

DeleteDegustacaoCross ==
    \E c \in Callers, e \in EventoIds, d \in DegustacaoIds : delete_degustacao_for_evento(c, e, d) /\ UNCHANGED <<time, requests>>

NextCross ==
    \/ CreateEventoCross
    \/ AddDespesaCross
    \/ AddDegustacaoCross
    \/ UpdateDespesaCross
    \/ DeleteDespesaCross
    \/ UpdateDegustacaoCross
    \/ DeleteDegustacaoCross

SpecCross == Init /\ [][NextCross]_vars

\* The request of this step names an existing event and an existing child
\* that belongs to another event.
CrossAddressed ==
    /\ last'.op \in ChildWriteOps
    /\ last'.id \in DOMAIN eventos
    /\ last'.id2 \in DOMAIN ChildTable(last'.op)
    /\ ChildTable(last'.op)[last'.id2].id_evento # last'.id

\* C21.  No cross-event child access.  An update or delete addressed to an
\* expense or tasting under an event takes effect only if the child belongs
\* to that event: a request that names an existing child of another event
\* changes nothing, and is answered 404 to a caller that is administrative or
\* created the event named in the path, whoever created the child (a caller
\* that may not touch the event named is refused with 403 before the child is
\* looked for).  A request that does change or remove a child names the
\* child's own event.
C21_NoCrossEventChild ==
    [][CallerActive =>
        /\ CrossAddressed =>
              /\ UNCHANGED store
              /\ IF CallerIsAdmin \/ eventos[last'.id].id_usuario_criador = last'.cred
                 THEN last'.status = 404
                 ELSE last'.status = 403
        /\ (last'.op \in ChildWriteOps /\ (despesas' # despesas \/ degustacoes' # degustacoes)) =>
              IsChildOf(last'.op, last'.id2, last'.id)]_vars

\* The creator of two events asked to delete, under one of them, the expense
\* it added to the other; it was answered 404 and the expense is there.
C21_Witness ==
    /\ last.op = "delete_despesa" /\ last.status = 404
    /\ last.id \in DOMAIN eventos /\ last.id2 \in DOMAIN despesas
    /\ despesas[last.id2].id_evento # last.id
    /\ eventos[last.id].id_usuario_criador = last.cred
    /\ eventos[despesas[last.id2].id_evento].id_usuario_criador = last.cred
    /\ despesas[last.id2].id_usuario_criador = last.cred

----------------------------------------------------------------------------
(* Statistics: the general report *)

\* func.coalesce(func.sum(column), 0) over the rows S of table t: NULLs do
\* not count.
SumColumn(t, S, col) ==
    SumOver([i \in S |-> IF t[i][col] = NULL THEN 0 ELSE t[i][col]], S)

\* func.coalesce(func.avg(column), 0) over the rows S of table t, carried to
\* two decimals (in hundredths): the mean of the values that are not NULL.
AvgColumn(t, S, col) ==
    LET present == {i \in S : t[i][col] # NULL} IN
    IF present = {} THEN 0 ELSE (SumColumn(t, present, col) * 100) \div Cardinality(present)

\* A report that joins the expenses without the filters of the events.
get_eventos_stats_AllExpenses(cred, data_inicio, data_fim) ==
    LET scope == StatsScope(cred, data_inicio, data_fim)
        with(st) == {e \in scope : eventos[e].status_evento = st}
    IN
    [total_eventos |-> Cardinality(scope),
     eventos_orcamento |-> Cardinality(with(ORCAMENTO)),
     eventos_confirmados |-> Cardinality(with(CONFIRMADO)),
     eventos_realizados |-> Cardinality(with(REALIZADO)),
     eventos_cancelados |-> Cardinality(with(CANCELADO)),
     valor_total_contratos |-> SumColumn(eventos, scope, "vlr_total_contrato"),
     valor_medio_contrato |-> AvgColumn(eventos, scope, "vlr_total_contrato"),
     valor_total_orcamentos |-> SumColumn(eventos, with(ORCAMENTO), "vlr_total_contrato"),
     valor_total_confirmados |-> SumColumn(eventos, with(CONFIRMADO), "vlr_total_contrato"),
     total_despesas |-> SumColumn(despesas, DOMAIN despesas, "vlr_total_pago"),
     total_degustacoes |-> Cardinality({d \in DOMAIN degustacoes : degustacoes[d].id_evento \in scope})]

\* crud_event.get_eventos_stats: the counts and contract figures of the events
\* in scope and the figures of the expenses and tastings joined to them.  The
\* guest figures and the tastings' value are computed like the contract
\* figures and the expenses' total and are not carried here.
get_eventos_stats(cred, data_inicio, data_fim) ==
    LET scope == StatsScope(cred, data_inicio, data_fim)
        with(st) == {e \in scope : eventos[e].status_evento = st}
    IN
    [total_eventos |-> Cardinality(scope),
     eventos_orcamento |-> Cardinality(with(ORCAMENTO)),
     eventos_confirmados |-> Cardinality(with(CONFIRMADO)),
     eventos_realizados |-> Cardinality(with(REALIZADO)),
     eventos_cancelados |-> Cardinality(with(CANCELADO)),
     valor_total_contratos |-> SumColumn(eventos, scope, "vlr_total_contrato"),
     valor_medio_contrato |-> AvgColumn(eventos, scope, "vlr_total_contrato"),
     valor_total_orcamentos |-> SumColumn(eventos, with(ORCAMENTO), "vlr_total_contrato"),
     valor_total_confirmados |-> SumColumn(eventos, with(CONFIRMADO), "vlr_total_contrato"),
     total_despesas |-> SumColumn(despesas, {d \in DOMAIN despesas : despesas[d].id_evento \in scope}, "vlr_total_pago"),
     total_degustacoes |-> Cardinality({d \in DOMAIN degustacoes : degustacoes[d].id_evento \in scope})]

\* routers/eventos.py get_eventos_statistics (GET /eventos/stats/geral).
get_eventos_statistics(cred, data_inicio, data_fim) ==
    LET auth == get_current_active_operational_user(cred)
        req == [data_inicio |-> data_inicio, data_fim |-> data_fim]
    IN
    /\ UNCHANGED store
    /\ IF auth.status # 200 THEN
           last' = Reply("stats_geral", cred, auth.status, auth.detail, NULL, NULL, req)
       ELSE
           last' = Response("stats_geral", cred, 200, "ok", NULL, NULL, req,
                      [EmptyBody EXCEPT !.items = <<get_eventos_stats(cred, data_inicio, data_fim)>>])

ReportCallers == {1, 2}

ReportCreateBodies ==
    {Override(BaseEvento, [vlr_total_contrato |-> 5]),
     Override(BaseEvento, [data_evento |-> 2, status_evento |-> CONFIRMADO])}

ReportUpdateBodies == {[vlr_total_contrato |-> 7, data_evento |-> 2]}

ReportRanges == {[data_inicio |-> NULL, data_fim |-> NULL], [data_inicio |-> 2, data_fim |-> 2]}

CreateEventoReport ==
    \E c \in {2, 3}, raw \in ReportCreateBodies :
        RowsInserted < MaxStatRows /\ create_evento(c, raw) /\ UNCHANGED <<time, requests>>

UpdateEventoReport ==
    \E c \in {3}, e \in DOMAIN eventos, raw \in ReportUpdateBodies : update_evento(c, e, raw) /\ UNCHANGED <<time, requests>>

DeleteEventoReport == \E c \in {3}, e \in DOMAIN eventos : delete_evento(c, e) /\ UNCHANGED <<time, requests>>

AddDespesaReport ==
    \E c \in {1}, e \in DOMAIN eventos :
        RowsInserted < MaxStatRows /\ add_despesa_evento(c, e, [id_insumo |-> 1, vlr_total_pago |-> 3]) /\ UNCHANGED <<time, requests>>

AddDegustacaoReport ==
    \E c \in {1}, e \in DOMAIN eventos :
        RowsInserted < MaxStatRows /\ add_degustacao_evento(c, e, [status |-> AGENDADA]) /\ UNCHANGED <<time, requests>>

StatsGeral ==
    \E c \in ReportCallers, r \in ReportRanges :
        get_eventos_statistics(c, r.data_inicio, r.data_fim) /\ UNCHANGED <<time, requests>>

NextReport ==
    \/ CreateEventoReport
    \/ UpdateEventoReport
    \/ DeleteEventoReport
    \/ AddDespesaReport
    \/ AddDegustacaoReport
    \/ StatsGeral

SpecReport == Init /\ [][NextReport]_vars

\* The events whose figures caller c is to be told of: its own, or all for an
\* administrative caller, with the event date inside the inclusive range.
InReportScope(c, r) ==
    {e \in DOMAIN eventos :
        /\ users[c].perfil = ADMINISTRATIVO \/ eventos[e].id_usuario_criador = c
        /\ r.data_inicio = NULL \/ eventos[e].data_evento >= r.data_inicio
        /\ r.data_fim = NULL \/ eventos[e].data_evento <= r.data_fim}

\* The figures of an answered general report are those of the events in the
\* caller's scope and of the children of those events, whoever created the
\* child.
ReportFromScope ==
    (last.op = "stats_geral" /\ last.status = 200) =>
        LET b == last.body.items[1]
            scope == InReportScope(last.cred, last.req)
            contracts == {e \in scope : eventos[e].vlr_total_contrato # NULL}
            exps == {d \in DOMAIN despesas : despesas[d].id_evento \in scope}
        IN
        /\ b.total_eventos = Cardinality(scope)
        /\ b.eventos_orcamento + b.eventos_confirmados + b.eventos_realizados + b.eventos_cancelados
              = Cardinality(scope)
        /\ b.eventos_confirmados = Cardinality({e \in scope : eventos[e].status_evento = CONFIRMADO})
        /\ b.valor_total_contratos = SumOver([e \in contracts |-> eventos[e].vlr_total_contrato], contracts)
        /\ b.valor_total_orcamentos + b.valor_total_confirmados <= b.valor_total_contratos
        /\ contracts # {} => b.valor_medio_contrato * Cardinality(contracts) <= b.valor_total_contratos * 100
        /\ contracts = {} => b.valor_medio_contrato = 0
        /\ b.total_despesas = SumOver([d \in exps |-> despesas[d].vlr_total_pago], exps)
        /\ b.total_degustacoes =
              Cardinality({d \in DOMAIN degustacoes : degustacoes[d].id_evento \in scope})

\* This step served a create, update or delete of an event that user c did
\* not create.
OthersEventWritten(c) ==
    /\ last'.op \in {"create_evento", "update_evento", "delete_evento"}
    /\ \/ last'.op = "create_evento" /\ last'.cred # c
       \/ /\ last'.op \in {"update_evento", "delete_evento"}
          /\ last'.id \in DOMAIN eventos => eventos[last'.id].id_usuario_criador # c

\* C23.  Report scoping.  Every figure of the general report is computed from
\* the events in the caller's scope (for an operational caller its own, for
\* an administrative one all, inside the inclusive date range) and from the
\* expenses and tastings of those events whoever created them; a create,
\* update or delete of an event of another user never changes the report of
\* an operational caller.
C23_ReportScope ==
    [][/\ ReportFromScope'
       /\ \A c \in {u \in DOMAIN users : users[u].perfil = OPERACIONAL} : \A r \in ReportRanges :
             OthersEventWritten(c) =>
                get_eventos_stats(c, r.data_inicio, r.data_fim)'
                   = get_eventos_stats(c, r.data_inicio, r.data_fim)]_vars

\* An operational caller was given the report while another user's event
\* with a contract value, and an expense an administrator added to the
\* caller's own event, were in the store: the report counts the expense and
\* not the other user's contract.
C23_Witness ==
    /\ last.op = "stats_geral" /\ last.status = 200
    /\ users[last.cred].perfil = OPERACIONAL
    /\ \E e \in DOMAIN eventos :
          eventos[e].id_usuario_criador # last.cred /\ eventos[e].vlr_total_contrato # NULL
    /\ \E d \in DOMAIN despesas :
          /\ despesas[d].id_usuario_criador # last.cred
          /\ eventos[despesas[d].id_evento].id_usuario_criador = last.cred
    /\ last.body.items[1].total_despesas > 0
    /\ last.body.items[1].valor_total_contratos = 0

----------------------------------------------------------------------------
(* Partial updates *)

PatchCallers == {1, 2}

\* Bodies of PUT /clientes/{id}: a value, an explicit null, nothing, and keys
\* the update schema does not declare.
PatchDimBodies ==
    {[descricao |-> 2], [descricao |-> NULL], EmptyReq, [id_usuario_criador |-> 1, id |-> 9]}

\* Bodies of PUT /eventos/{id}: an optional reference cleared, a required one
\* cleared, two fields at once, and keys the update schema does not declare.
PatchEventoBodies ==
    {[id_cidade |-> NULL], [id_cliente |-> NULL],
     [id_cidade |-> 1, status_evento |-> CONFIRMADO],
     [vlr_total_contrato |-> 7, id_usuario_criador |-> 1, id |-> 9], EmptyReq}

CreateItemPatch ==
    \E c \in {2} :
        /\ clock < MaxClock
        /\ RowsInserted < MaxRows
        /\ create_item("clientes", c, [descricao |-> 1])
        /\ IF last'.status = 201 THEN
               /\ stamps' = [stamps EXCEPT !.dims["clientes"] =
                                With(@, last'.id, CRUDBase_create_stamps(clock + 1, clock + 1))]
               /\ clock' = clock + 1
           ELSE UNCHANGED time
        /\ UNCHANGED requests

CreateEventoPatch ==
    \E c \in {2}, raw \in {BaseEvento, Override(BaseEvento, [id_cidade |-> 1])} :
        /\ clock < MaxClock
        /\ RowsInserted < MaxRows
        /\ create_evento(c, raw)
        /\ IF last'.status = 201 THEN
               /\ stamps' = [stamps EXCEPT !.eventos = With(@, last'.id, server_default_stamps(clock + 1))]
               /\ clock' = clock + 1
           ELSE UNCHANGED time
        /\ UNCHANGED requests

UpdateItemPatch ==
    \E c \in PatchCallers, raw \in PatchDimBodies : \E i \in DimIds("clientes") :
        /\ clock < MaxClock
        /\ update_item("clientes", c, i, raw)
        /\ IF last'.status = 200 THEN
               /\ stamps' = [stamps EXCEPT !.dims["clientes"][i] =
                                onupdate_stamps(@, dims'["clientes"][i] # dims["clientes"][i], clock + 1)]
               /\ clock' = clock + 1
           ELSE UNCHANGED time
        /\ UNCHANGED requests

UpdateEventoPatch ==
    \E c \in PatchCallers, raw \in PatchEventoBodies : \E e \in DOMAIN eventos :
        /\ clock < MaxClock
        /\ update_evento(c, e, raw)
        /\ IF last'.status = 200 THEN
               /\ stamps' = [stamps EXCEPT !.eventos[e] =
                                onupdate_stamps(@, eventos'[e] # eventos[e], clock + 1)]
               /\ clock' = clock + 1
           ELSE UNCHANGED time
        /\ UNCHANGED requests

NextPatch ==
    \/ CreateItemPatch
    \/ CreateEventoPatch
    \/ UpdateItemPatch
    \/ UpdateEventoPatch

SpecPatch == Init /\ [][NextPatch]_vars

\* The row an accepted update leaves, field by field: the patch's value for a
\* field the patch carries (None included), the stored value for every other
\* field; the creator is the stored one whatever the body says.
Patched(old, new, req) ==
    /\ DOMAIN new = DOMAIN old
    /\ new.id_usuario_criador = old.id_usuario_criador
    /\ \A f \in DOMAIN old \ {"id_usuario_criador"} :
          new[f] = IF f \in DOMAIN req THEN req[f] ELSE old[f]

----------------------------------------------------------------------------
(* Statistics: events by month *)

\* Dates of this section are numbered month * 100 + day, the months counted
\* from the first one the model knows: to_char(data_evento, 'YYYY-MM').
MonthOf(d) == d \div 100

\* ORDER BY mes_ano ASC over the groups of the GROUP BY.
RECURSIVE AscSeq(_)
AscSeq(S) ==
    IF S = {} THEN <<>>
    ELSE LET m == CHOOSE x \in S : \A y \in S : x <= y IN <<m>> \o AscSeq(S \ {m})

\* The default of get_eventos_por_mes's limit, which the router never passes.
PorMesDefaultLimit == 12

\* crud_event.get_eventos_por_mes: one dict per month of the scope, ascending,
\* cut by .limit(limit).
crud_get_eventos_por_mes(cred, data_inicio, data_fim, limit) ==
    LET scope == StatsScope(cred, data_inicio, data_fim)
        months == AscSeq({MonthOf(eventos[e].data_evento) : e \in scope})
        results == SubSeq(months, 1, IF Len(months) < limit THEN Len(months) ELSE limit)
    IN
    [i \in DOMAIN results |->
        [mes_ano |-> results[i],
         total_eventos |-> Cardinality({e \in scope : MonthOf(eventos[e].data_evento) = results[i]}),
         valor_total_contratos |->
             SumColumn(eventos, {e \in scope : MonthOf(eventos[e].data_evento) = results[i]},
                       "vlr_total_contrato")]]

\* The fields of schemas.EventosPorMes, all required.
EventosPorMesFields == {"mes", "total_eventos", "valor_total"}

\* routers/eventos.py get_eventos_por_mes (GET /eventos/stats/por-mes): the
\* gate, the crud function with its default limit, then serialisation through
\* response_model=List[EventosPorMes].
get_eventos_por_mes(cred, data_inicio, data_fim) ==
    LET auth == get_current_active_operational_user(cred)
        req == [data_inicio |-> data_inicio, data_fim |-> data_fim]
        rows == crud_get_eventos_por_mes(cred, data_inicio, data_fim, PorMesDefaultLimit)
    IN
    /\ UNCHANGED store
    /\ IF auth.status # 200 THEN
           last' = Reply("por_mes", cred, auth.status, auth.detail, NULL, NULL, req)
       ELSE IF \E i \in DOMAIN rows : ~(EventosPorMesFields \subseteq DOMAIN rows[i]) THEN
           last' = Reply("por_mes", cred, 500, "response", NULL, NULL, req)
       ELSE
           last' = Response("por_mes", cred, 200, "ok", NULL, NULL, req, [EmptyBody EXCEPT !.items = rows])

\* The most events the model of the by-month report holds.
MaxMonthRows == 13

\* POST /eventos as the calendar advances: user 2 books an event with a
\* contract value in a month of its own, or, for the first two events, user 3
\* one without a value in the first month.
CreateEventoMonths ==
    \E b \in {[c |-> 2, raw |-> Override(BaseEvento, [data_evento |-> nextId.eventos * 100 + 1,
                                                      vlr_total_contrato |-> 5])]}
             \cup (IF nextId.eventos <= 2
                   THEN {[c |-> 3, raw |-> Override(BaseEvento, [data_evento |-> 100 + nextId.eventos])]}
                   ELSE {}) :
        /\ nextId.eventos <= MaxMonthRows
        /\ create_evento(b.c, b.raw)
        /\ UNCHANGED <<time, requests>>

PorMes ==
    \E c \in {1, 2, 3}, data_inicio \in {NULL, 201}, data_fim \in {NULL, 1231} :
        get_eventos_por_mes(c, data_inicio, data_fim) /\ UNCHANGED <<time, requests>>

NextMonths ==
    \/ CreateEventoMonths
    \/ PorMes

SpecMonths == Init /\ [][NextMonths]_vars

\* What the last by-month request computed, and the events it was about.
MonthRows == crud_get_eventos_por_mes(last.cred, last.req.data_inicio, last.req.data_fim, PorMesDefaultLimit)

MonthScope == StatsScope(last.cred, last.req.data_inicio, last.req.data_fim)

\* The buckets the claim describes, over the rows r of a report.
MonthBuckets(r) ==
    /\ {r[i].mes_ano : i \in DOMAIN r} = {MonthOf(eventos[e].data_evento) : e \in MonthScope}
    /\ \A i, j \in DOMAIN r : i < j => r[i].mes_ano < r[j].mes_ano
    /\ \A i \in DOMAIN r :
          LET es == {e \in MonthScope : MonthOf(eventos[e].data_evento) = r[i].mes_ano} IN
          /\ r[i].total_eventos = Cardinality(es)
          /\ r[i].valor_total_contratos = SumColumn(eventos, es, "vlr_total_contrato")
    /\ SumOver([i \in DOMAIN r |-> r[i].total_eventos], DOMAIN r) = Cardinality(MonthScope)

\* C24.  The by-month report answers one bucket for every distinct month of
\* the event date among the events in the caller's scope, ascending, each with
\* the count and the contract sum of that month's in-scope events; the counts
\* sum to the number of events in scope however many months there are.
C24_ByMonth ==
    last.op = "por_mes" => (last.status = 200 /\ MonthBuckets(MonthRows))

\* The report was asked over a scope of two events of one month and one of
\* another.
C24_Witness ==
    /\ last.op = "por_mes"
    /\ Cardinality(MonthScope) = 3
    /\ Cardinality({MonthOf(eventos[e].data_evento) : e \in MonthScope}) = 2

\* The rows the crud function computes are the claim's buckets.
MonthBucketsComputed == last.op = "por_mes" => MonthBuckets(MonthRows)

\* They are while the scope spans no more months than the default limit.
MonthBucketsWithinLimit ==
    (last.op = "por_mes"
        /\ Cardinality({MonthOf(eventos[e].data_evento) : e \in MonthScope}) <= PorMesDefaultLimit)
    => MonthBuckets(MonthRows)

\* Every answered by-month report is the empty one.
MonthAnsweredOnlyEmpty == (last.op = "por_mes" /\ last.status = 200) => MonthScope = {}

----------------------------------------------------------------------------
(* Statistics: top clients *)

\* func.sum(vlr_total_contrato) over the events S, not coalesced: NULL when
\* no event of S carries a value.
RawSum(S) ==
    IF \A e \in S : eventos[e].vlr_total_contrato = NULL THEN NULL
    ELSE SumColumn(eventos, S, "vlr_total_contrato")

\* Where ORDER BY ... DESC puts the NULLs is the database's choice, and
\* settings.DATABASE_URL names the database: first (PostgreSQL) or last.
NullsFirstOutcomes == BOOLEAN

\* key a comes no later than key b under ORDER BY ... DESC.
DescBefore(a, b, nulls_first) ==
    IF a = NULL /\ b = NULL THEN TRUE
    ELSE IF a = NULL THEN nulls_first
    ELSE IF b = NULL THEN ~nulls_first
    ELSE a >= b

\* crud_event.get_top_clientes: the results the query may return.  One group
\* per client joined to an in-scope event, ordered by the sum that is not
\* coalesced, groups that tie in any order, cut by .limit(limit); each row
\* reports the coalesced sum.
crud_get_top_clientes(cred, limit, data_inicio, data_fim, nulls_first) ==
    LET scope == StatsScope(cred, data_inicio, data_fim)
        of(cl) == {e \in scope : eventos[e].id_cliente = cl}
        groups == {cl \in DOMAIN dims["clientes"] : of(cl) # {}}
        orders == {s \in AnyOrder(groups) :
                      \A i, j \in DOMAIN s : i < j => DescBefore(RawSum(of(s[i])), RawSum(of(s[j])), nulls_first)}
    IN
    {[i \in DOMAIN Page(s, 0, limit) |->
         [id_cliente |-> s[i],
          nome_cliente |-> dims["clientes"][s[i]].descricao,
          total_eventos |-> Cardinality(of(s[i])),
          valor_total_contratos |-> SumColumn(eventos, of(s[i]), "vlr_total_contrato")]] : s \in orders}

\* The fields of schemas.TopClientes, all required.
TopClientesFields == {"id_cliente", "cliente_nome", "total_eventos", "valor_total"}

\* routers/eventos.py get_top_clientes (GET /eventos/stats/top-clientes): the
\* gate, the crud function, then serialisation through
\* response_model=List[TopClientes].
get_top_clientes(cred, limit, data_inicio, data_fim) ==
    LET auth == get_current_active_operational_user(cred)
        req == [limit |-> limit, data_inicio |-> data_inicio, data_fim |-> data_fim]
    IN
    /\ UNCHANGED store
    /\ IF auth.status # 200 THEN
           last' = Reply("top_clientes", cred, auth.status, auth.detail, NULL, NULL, req)
       ELSE
           \E nulls_first \in NullsFirstOutcomes :
           \E rows \in crud_get_top_clientes(cred, limit, data_inicio, data_fim, nulls_first) :
               IF \E i \in DOMAIN rows : ~(TopClientesFields \subseteq DOMAIN rows[i]) THEN
                   last' = Reply("top_clientes", cred, 500, "response", NULL, NULL, req)
               ELSE
                   last' = Response("top_clientes", cred, 200, "ok", NULL, NULL, req,
                              [EmptyBody EXCEPT !.items = rows])

\* The most events the model of the top-clients report holds.
MaxTopRows == 3

CreateClienteTop ==
    /\ nextId.dims["clientes"] <= 2
    /\ create_item("clientes", 2, [descricao |-> 1])
    /\ UNCHANGED <<time, requests>>

CreateEventoTop ==
    \E c \in {2, 3}, cl \in {1, 2}, v \in {NULL, 5} :
        /\ nextId.eventos <= MaxTopRows
        /\ create_evento(c, Override(BaseEvento, [id_cliente |-> cl, vlr_total_contrato |-> v]))
        /\ UNCHANGED <<time, requests>>

TopClientes ==
    \E c \in {1, 2}, limit \in {1, 2}, data_inicio \in {NULL, 1}, data_fim \in {NULL} :
        get_top_clientes(c, limit, data_inicio, data_fim) /\ UNCHANGED <<time, requests>>

NextTop ==
    \/ CreateClienteTop
    \/ CreateEventoTop
    \/ TopClientes

SpecTop == Init /\ [][NextTop]_vars

\* The events the last top-clients request was about, and its clients.
TopScope == StatsScope(last.cred, last.req.data_inicio, last.req.data_fim)

TopGroups == {eventos[e].id_cliente : e \in TopScope}

TopSum(cl) == SumColumn(eventos, {e \in TopScope : eventos[e].id_cliente = cl}, "vlr_total_contrato")

\* The ranking the claim describes, of the rows r of a report.
TopRanking(r) ==
    /\ Len(r) = (IF Cardinality(TopGroups) < last.req.limit THEN Cardinality(TopGroups) ELSE last.req.limit)
    /\ \A i \in DOMAIN r :
          /\ r[i].id_cliente \in TopGroups
          /\ r[i].valor_total_contratos = TopSum(r[i].id_cliente)
    /\ \A i, j \in DOMAIN r : i < j =>
          /\ r[i].id_cliente # r[j].id_cliente
          /\ r[i].valor_total_contratos >= r[j].valor_total_contratos
    /\ \A cl \in TopGroups \ {r[i].id_cliente : i \in DOMAIN r} :
          \A i \in DOMAIN r : TopSum(cl) <= r[i].valor_total_contratos

\* C25.  The top-clients report answers at most limit rows, one per client
\* with an in-scope event, ordered by the reported contract sum, largest
\* first (a client without any contract value counts as 0), and no client
\* left out has a larger sum than one that is in.
C25_TopClients ==
    last.op = "top_clientes" =>
        /\ last.status = 200
        /\ \A nulls_first \in NullsFirstOutcomes :
              \A r \in crud_get_top_clientes(last.cred, last.req.limit, last.req.data_inicio,
                                             last.req.data_fim, nulls_first) : TopRanking(r)

\* The report was asked with limit 1 over a scope of two clients, one with a
\* contract value and one without any.
C25_Witness ==
    /\ last.op = "top_clientes" /\ last.req.limit = 1
    /\ Cardinality(TopGroups) = 2
    /\ \E cl \in TopGroups : TopSum(cl) > 0
    /\ \E cl \in TopGroups : \A e \in TopScope : eventos[e].id_cliente = cl => eventos[e].vlr_total_contrato = NULL

\* The rows the crud function computes are ranked as the claim says, wherever
\* the database puts the NULLs.
TopRankingComputed ==
    last.op = "top_clientes" =>
        \A nulls_first \in NullsFirstOutcomes :
            \A r \in crud_get_top_clientes(last.cred, last.req.limit, last.req.data_inicio,
                                           last.req.data_fim, nulls_first) : TopRanking(r)

\* They are on a database that puts the NULLs last.
TopRankingNullsLast ==
    last.op = "top_clientes" =>
        \A r \in crud_get_top_clientes(last.cred, last.req.limit, last.req.data_inicio,
                                       last.req.data_fim, FALSE) : TopRanking(r)

\* Every answered top-clients report is the empty one.
TopAnsweredOnlyEmpty == (last.op = "top_clientes" /\ last.status = 200) => TopScope = {}

----------------------------------------------------------------------------
(* Deleting a user: what goes with it *)

\* The most rows the requests of this section insert.
MaxCascadeRows == 4

\* PUT /users/2 by the administrator: user 2 becomes administrative.
PromoteCascade ==
    update_user_by_admin(1, 2, [perfil |-> ADMINISTRATIVO]) /\ UNCHANGED <<time, requests>>

\* POST /clientes/ by user 3.
CreateItemCascade ==
    /\ RowsInserted < MaxCascadeRows
    /\ create_item("clientes", 3, [descricao |-> 1])
    /\ UNCHANGED <<time, requests>>

CreateEventoCascade ==
    \E c \in {2, 3}, raw \in {BaseEvento, Override(BaseEvento, [id_cliente |-> 2])} :
        /\ RowsInserted < MaxCascadeRows
        /\ create_evento(c, raw)
        /\ UNCHANGED <<time, requests>>

AddDespesaCascade ==
    \E c \in {1, 2, 3}, raw \in DespesaCreateBodies : \E e \in DOMAIN eventos :
        /\ RowsInserted < MaxCascadeRows
        /\ add_despesa_evento(c, e, raw)
        /\ UNCHANGED <<time, requests>>

AddDegustacaoCascade ==
    \E c \in {2, 3}, raw \in DegustacaoCreateBodies : \E e \in DOMAIN eventos :
        /\ RowsInserted < MaxCascadeRows
        /\ add_degustacao_evento(c, e, raw)
        /\ UNCHANGED <<time, requests>>

DeleteUserCascade ==
    \E c \in {1, 2}, u \in {1, 2, 3} : delete_user_by_admin(c, u) /\ UNCHANGED <<time, requests>>

NextCascade ==
    \/ PromoteCascade
    \/ CreateItemCascade
    \/ CreateEventoCascade
    \/ AddDespesaCascade
    \/ AddDegustacaoCascade
    \/ DeleteUserCascade

SpecCascade == Init /\ [][NextCascade]_vars

\* The creator ids of the stored rows of every table.
CreatorsStored ==
    UNION {{dims[k][i].id_usuario_criador : i \in DOMAIN dims[k]} : k \in Kinds}
    \cup {eventos[e].id_usuario_criador : e \in DOMAIN eventos}
    \cup {despesas[d].id_usuario_criador : d \in DOMAIN despesas}
    \cup {degustacoes[d].id_usuario_criador : d \in DOMAIN degustacoes}

\* C26.  After an accepted delete of user U no dimension row, event, expense
\* or tasting created by U remains, and in every state every stored row's
\* id_usuario_criador is the id of a stored user.
C26_NoRowOfDeletedUser ==
    [][/\ (last'.op = "delete_user" /\ last'.status = 204) =>
              (last'.id \notin DOMAIN users' /\ last'.id \notin CreatorsStored')
       /\ CreatorsStored' \subseteq DOMAIN users']_vars

\* An accepted delete of a user has removed an event and an expense while
\* another event and a dimension row created on request are still stored.
C26_Witness ==
    /\ last.op = "delete_user" /\ last.status = 204
    /\ Cardinality(DOMAIN eventos) < nextId.eventos - 1
    /\ Cardinality(DOMAIN despesas) < nextId.despesas - 1
    /\ eventos # <<>>
    /\ 2 \in DOMAIN dims["clientes"]

----------------------------------------------------------------------------
(* Requests in flight: the handlers of an event, step by step *)

\* Whether get_db's finally clause runs db.close() after a handler that
\* returned ("return"), raised an HTTPException or raised anything else.
get_db_finally_OnReturn(outcome) == outcome = "return"

get_db_finally(outcome) == TRUE

\* How a handler that answered with the given status ended.
Outcome(status) ==
    IF status \in {200, 201, 204} THEN "return"
    ELSE IF status \in {401, 403, 404} THEN "HTTPException"
    ELSE "exception"

\* What a request in slot r becomes once its handler has answered.
Answered(r, status) == [requests EXCEPT ![r].step = "answered", ![r].status = status]

\* The first step the handlers of update_evento, delete_evento,
\* add_despesa_evento and add_degustacao_evento share: get_db opens the
\* session, the gate identifies the caller, get_evento loads the event and
\* validate_event_permission judges it.  A refusal answers at once; otherwise
\* the session holds the event as it was read.
load_evento(r, op, cred, evento_id, raw) ==
    LET auth == get_current_active_operational_user(cred)
        perm == IF auth.status = 200 THEN validate_event_permission(evento_id, cred) ELSE auth
        q == [IdleRequest EXCEPT !.op = op, !.cred = cred, !.id = evento_id, !.raw = raw, !.db = TRUE]
    IN
    /\ requests[r].step = "idle"
    /\ UNCHANGED <<store, time>>
    /\ IF perm.status # 200 THEN
           /\ requests' = [requests EXCEPT ![r] = [q EXCEPT !.step = "answered", !.status = perm.status]]
           /\ last' = Reply(op, cred, perm.status, perm.detail, evento_id, NULL, raw)
       ELSE
           /\ requests' = [requests EXCEPT ![r] = [q EXCEPT !.step = "loaded", !.seen = eventos[evento_id]]]
           /\ UNCHANGED last

\* The attributes with a net change after the setattr loop: the flush writes
\* a column only when the value set differs from the one the session loaded.
NetChange(seen, update_data) == {f \in DOMAIN update_data : update_data[f] # seen[f]}

\* crud_event.update_evento on the loaded event: validate, setattr, commit.
\* The UPDATE sets the columns with a net change on the row as stored now
\* (READ COMMITTED); with none no UPDATE is sent.  A row deleted meanwhile
\* makes the UPDATE, or the refresh, fail.
update_evento_commit(r) ==
    LET q == requests[r]
        update_data == EventoUpdateDump(q.raw)
        missing == validate_evento_relationships(update_data)
        changed == NetChange(q.seen, update_data)
    IN
    /\ q.step = "loaded" /\ q.op = "update_evento"
    /\ UNCHANGED time
    /\ IF missing # "ok" THEN
           /\ last' = Reply("update_evento", q.cred, 404, missing, q.id, NULL, q.raw)
           /\ requests' = Answered(r, 404)
           /\ UNCHANGED store
       ELSE IF q.id \notin DOMAIN eventos THEN
           /\ last' = Reply("update_evento", q.cred, 500, "stale", q.id, NULL, q.raw)
           /\ requests' = Answered(r, 500)
           /\ UNCHANGED store
       ELSE IF ~EventoRowOK(Override(eventos[q.id], Restrict(update_data, changed))) THEN
           /\ last' = Reply("update_evento", q.cred, 500, "integrity", q.id, NULL, q.raw)
           /\ requests' = Answered(r, 500)
           /\ UNCHANGED store
       ELSE
           /\ eventos' = [eventos EXCEPT ![q.id] = Override(@, Restrict(update_data, changed))]
           /\ last' = Reply("update_evento", q.cred, 200, "ok", q.id, NULL, q.raw)
           /\ requests' = Answered(r, 200)
           /\ UNCHANGED <<users, tokens, dims, despesas, degustacoes, nextId>>

\* crud_event.add_despesa_to_evento after the event was loaded and judged:
\* the supply item is looked up, then the INSERT is committed.
add_despesa_commit(r) ==
    LET q == requests[r]
        data == DespesaCreateDump(q.raw)
        row == Override(data, [id_evento |-> q.id, id_usuario_criador |-> q.cred])
        id == nextId.despesas
    IN
    /\ q.step = "loaded" /\ q.op = "add_despesa"
    /\ UNCHANGED time
    /\ IF data.id_insumo \notin DOMAIN dims["insumos"] THEN
           /\ last' = Reply("add_despesa", q.cred, 404, "id_insumo", q.id, NULL, q.raw)
           /\ requests' = Answered(r, 404)
           /\ UNCHANGED store
       ELSE IF ~DespesaRowOK(row) THEN
           /\ last' = Reply("add_despesa", q.cred, 500, "integrity", q.id, NULL, q.raw)
           /\ requests' = Answered(r, 500)
           /\ UNCHANGED store
       ELSE
           /\ despesas' = With(despesas, id, row)
           /\ nextId' = [nextId EXCEPT !.despesas = id + 1]
           /\ last' = Reply("add_despesa", q.cred, 201, "ok", q.id, id, q.raw)
           /\ requests' = Answered(r, 201)
           /\ UNCHANGED <<users, tokens, dims, eventos, degustacoes>>

\* crud_event.add_degustacao_to_evento after the event was loaded and judged.
add_degustacao_commit(r) ==
    LET q == requests[r]
        data == DegustacaoCreateDump(q.raw)
        row == [status |-> IF data.status = NULL THEN AGENDADA ELSE data.status,
                id_evento |-> q.id, id_usuario_criador |-> q.cred]
        id == nextId.degustacoes
    IN
    /\ q.step = "loaded" /\ q.op = "add_degustacao"
    /\ UNCHANGED time
    /\ IF ~DegustacaoRowOK(row) THEN
           /\ last' = Reply("add_degustacao", q.cred, 500, "integrity", q.id, NULL, q.raw)
           /\ requests' = Answered(r, 500)
           /\ UNCHANGED store
       ELSE
           /\ degustacoes' = With(degustacoes, id, row)
           /\ nextId' = [nextId EXCEPT !.degustacoes = id + 1]
           /\ last' = Reply("add_degustacao", q.cred, 201, "ok", q.id, id, q.raw)
           /\ requests' = Answered(r, 201)
           /\ UNCHANGED <<users, tokens, dims, eventos, despesas>>

\* crud_event.delete_evento, db.delete(evento_obj): the delete cascade loads
\* the event's expenses and tastings and marks them with it.
delete_evento_cascade(r) ==
    /\ requests[r].step = "loaded" /\ requests[r].op = "delete_evento"
    /\ requests' = [requests EXCEPT ![r].step = "marked",
                                    ![r].kids = [despesas |-> DespesasOf({requests[r].id}),
                                                 degustacoes |-> DegustacoesOf({requests[r].id})]]
    /\ UNCHANGED <<store, last, time>>

\* Whether the store accepts the DELETEs of the flush: the event is still
\* there and no child but the marked ones references it (ForeignKey
\* eventos.id of despesas and degustacoes).
DeleteEventoAccepted_Unchecked(q) == q.id \in DOMAIN eventos

DeleteEventoAccepted(q) ==
    /\ q.id \in DOMAIN eventos
    /\ DespesasOf({q.id}) \subseteq q.kids.despesas
    /\ DegustacoesOf({q.id}) \subseteq q.kids.degustacoes

\* crud_event.delete_evento, db.commit(): the marked children and the event
\* are deleted, or the commit fails and nothing is.
delete_evento_commit(r) ==
    LET q == requests[r] IN
    /\ q.step = "marked" /\ q.op = "delete_evento"
    /\ UNCHANGED time
    /\ IF ~DeleteEventoAccepted(q) THEN
           /\ last' = Reply("delete_evento", q.cred, 500, "integrity", q.id, NULL, EmptyReq)
           /\ requests' = Answered(r, 500)
           /\ UNCHANGED store
       ELSE
           /\ eventos' = Without(eventos, {q.id})
           /\ despesas' = Without(despesas, q.kids.despesas)
           /\ degustacoes' = Without(degustacoes, q.kids.degustacoes)
           /\ last' = Reply("delete_evento", q.cred, 204, "ok", q.id, NULL, EmptyReq)
           /\ requests' = Answered(r, 204)
           /\ UNCHANGED <<users, tokens, dims, nextId>>

\* deps.get_db after the handler has answered: the finally clause closes the
\* session and the request is over.
get_db_close(r) ==
    /\ requests[r].step = "answered"
    /\ requests' = [requests EXCEPT ![r] =
                       [IdleRequest EXCEPT !.db = ~get_db_finally(Outcome(requests[r].status))]]
    /\ UNCHANGED <<store, last, time>>

----------------------------------------------------------------------------
(* Two updates of one event in flight *)

RaceUpdateBodies ==
    {[status_evento |-> ORCAMENTO], [status_evento |-> CONFIRMADO],
     [status_evento |-> ORCAMENTO, vlr_total_contrato |-> 7]}

\* POST /eventos by user 2, served in one step: the event the updates are about.
CreateEventoRace ==
    /\ nextId.eventos <= 1
    /\ create_evento(2, BaseEvento)
    /\ UNCHANGED <<time, requests>>

\* PUT /eventos/{id} by the event's creator or the administrator begins.
BeginUpdate ==
    \E r \in Slots, c \in {1, 2}, raw \in RaceUpdateBodies : \E e \in DOMAIN eventos :
        load_evento(r, "update_evento", c, e, raw)

CommitUpdate == \E r \in Slots : update_evento_commit(r)

CloseUpdate == \E r \in Slots : get_db_close(r)

NextRaceUpdate ==
    \/ CreateEventoRace
    \/ BeginUpdate
    \/ CommitUpdate
    \/ CloseUpdate

SpecRaceUpdate == Init /\ [][NextRaceUpdate]_vars

\* The step in which the update of slot r writes and commits.
Committing(r) ==
    /\ requests[r].op = "update_evento"
    /\ requests[r].step = "loaded"
    /\ requests'[r].step = "answered"

\* C27.  Concurrent updates of an event are last-write-wins: an authorized
\* update that loaded the event commits with 200 whatever another update did
\* in between, and at its commit every field of its patch is stored with the
\* patch's value; so after two interleaved updates a field patched by both
\* holds the value of the one that committed last.
C27_LastWriteWins ==
    [][\A r \in Slots : Committing(r) =>
          /\ requests'[r].status = 200
          /\ \A f \in DOMAIN EventoUpdateDump(requests[r].raw) :
                eventos'[requests[r].id][f] = requests[r].raw[f]]_vars

\* Both updates of event 1 have committed, and the status stored is not the
\* one the second to commit sent.
C27_Witness ==
    /\ \A r \in Slots : requests[r].op = "update_evento" /\ requests[r].step = "answered"
                        /\ requests[r].status = 200 /\ requests[r].id = last.id
    /\ last.op = "update_evento" /\ last.status = 200
    /\ eventos[last.id].status_evento # last.req.status_evento

\* Neither update is rejected because of the other.
RaceNeitherRejected ==
    [][\A r \in Slots : Committing(r) => requests'[r].status = 200]_vars

\* At its commit, every field whose patched value differs from the value the
\* update loaded is stored with the patch's value.
RaceChangedFieldsWin ==
    [][\A r \in Slots : Committing(r) =>
          \A f \in NetChange(requests[r].seen, EventoUpdateDump(requests[r].raw)) :
              eventos'[requests[r].id][f] = requests[r].raw[f]]_vars

----------------------------------------------------------------------------
(* The session of a request *)

SessionUpdateBodies == {[status_evento |-> CONFIRMADO], [id_cliente |-> NULL]}

\* A request on an event begins: by its creator, by another operational user
\* or without a valid token; on a stored event or on an id that names none.
BeginSession ==
    \E r \in Slots, c \in {2, 3, BadToken}, e \in EventoIds :
        \/ \E raw \in SessionUpdateBodies : load_evento(r, "update_evento", c, e, raw)
        \/ load_evento(r, "delete_evento", c, e, EmptyReq)

\* The steps that carry the request of slot r on once it has begun.
SessionStep(r) ==
    \/ update_evento_commit(r)
    \/ delete_evento_cascade(r)
    \/ delete_evento_commit(r)
    \/ get_db_close(r)

NextSession ==
    \/ CreateEventoRace
    \/ BeginSession
    \/ \E r \in Slots : SessionStep(r)

\* The server runs a handler it has started to its answer, and FastAPI resumes
\* the get_db generator once the handler has answered: the steps of a request
\* that has begun are taken.
SpecSession == Init /\ [][NextSession]_vars /\ \A r \in Slots : WF_vars(SessionStep(r))

\* C28.  Every request that acquired a database session through get_db
\* eventually releases it, whether its handler returned, raised a typed
\* error or failed unexpectedly, and no session is open once its request is
\* over.
C28_SessionReleased ==
    /\ [](\A r \in Slots : requests[r].step = "idle" => ~requests[r].db)
    /\ \A r \in Slots : requests[r].db ~> ~requests[r].db

\* The last request served failed without a typed error and every request
\* is over, its session closed.
C28_Witness ==
    /\ last.op = "update_evento" /\ last.status = 500
    /\ \A r \in Slots : requests[r].step = "idle" /\ ~requests[r].db

----------------------------------------------------------------------------
(* Old tokens after a change of role or active flag *)

\* Every token in circulation was issued before the changes below: no request
\* of this specification logs in.
CreateEventoDemote ==
    /\ nextId.eventos <= 1
    /\ create_evento(2, BaseEvento)
    /\ UNCHANGED <<time, requests>>

\* PUT /users/{id}: an administrator changes the role or the active flag of
\* user 1 or 2, its own included.
UpdateUserDemote ==
    \E c \in {1, 2}, u \in {1, 2}, raw \in UserUpdateBodies :
        update_user_by_admin(c, u, raw) /\ UNCHANGED <<time, requests>>

ReadUserByIdDemote ==
    \E c \in {1, 2, 3} : read_user_by_id(c, 1) /\ UNCHANGED <<time, requests>>

ReadEventoDemote ==
    \E c \in {1, 2, 3}, e \in EventoIds : read_evento(c, e) /\ UNCHANGED <<time, requests>>

DeleteEventoDemote ==
    \E c \in {1, 3} : \E e \in DOMAIN eventos : delete_evento(c, e) /\ UNCHANGED <<time, requests>>

NextDemote ==
    \/ CreateEventoDemote
    \/ UpdateUserDemote
    \/ ReadUserByIdDemote
    \/ ReadEventoDemote
    \/ DeleteEventoDemote

SpecDemote == Init /\ [][NextDemote]_vars

\* C29.  Each request is judged by the role and the active flag stored for
\* its caller when it is served, whatever they were when the token was
\* issued: an inactive caller is rejected as inactive; an active caller that
\* is not administrative now has no access to user management and no way
\* around the ownership check of an event; an active caller that is
\* administrative now is refused by neither.  A refusal changes nothing.
C29_StoredRoleDecides ==
    [][last'.cred \in DOMAIN users =>
        /\ ~users[last'.cred].is_active =>
              (last'.status = 400 /\ last'.detail = "inactive" /\ UNCHANGED store)
        /\ (CallerActive /\ ~CallerIsAdmin /\ last'.op \in AdminOps) =>
              (last'.status = 403 /\ last'.detail = "role" /\ UNCHANGED store)
        /\ (/\ CallerActive /\ ~CallerIsAdmin /\ last'.op \in EventoOps
            /\ last'.id \in DOMAIN eventos
            /\ eventos[last'.id].id_usuario_criador # last'.cred) =>
              (last'.status = 403 /\ last'.detail = "owner" /\ UNCHANGED store)
        /\ (CallerActive /\ CallerIsAdmin) => last'.status \notin {400, 403}]_vars

\* User 1, administrative when its token was issued and operational now, asked
\* to delete another user's event and was refused as not its owner.
C29_Witness ==
    /\ last.op = "delete_evento" /\ last.cred = 1
    /\ last.status = 403 /\ last.detail = "owner"
    /\ users[1].perfil = OPERACIONAL /\ users[1].is_active
    /\ last.id \in DOMAIN eventos

----------------------------------------------------------------------------
(* Adding a child while the event is being deleted *)

\* The most rows the requests of this section insert.
MaxOrphanRows == 3

CreateEventoOrphan ==
    /\ RowsInserted < MaxOrphanRows
    /\ create_evento(2, BaseEvento)
    /\ UNCHANGED <<time, requests>>

\* POST /eventos/{id}/despesas or /degustacoes by the event's creator begins
\* in slot 1.
BeginAddChild ==
    \E e \in DOMAIN eventos :
        \/ \E raw \in DespesaCreateBodies : load_evento(1, "add_despesa", 2, e, raw)
        \/ \E raw \in DegustacaoCreateBodies : load_evento(1, "add_degustacao", 2, e, raw)

\* DELETE /eventos/{id} by the creator or the administrator begins in slot 2.
BeginDelete ==
    \E c \in {1, 2} : \E e \in DOMAIN eventos : load_evento(2, "delete_evento", c, e, EmptyReq)

\* The steps that carry the request of slot r on once it has begun.
OrphanStep(r) ==
    \/ RowsInserted < MaxOrphanRows /\ add_despesa_commit(r)
    \/ RowsInserted < MaxOrphanRows /\ add_degustacao_commit(r)
    \/ delete_evento_cascade(r)
    \/ delete_evento_commit(r)
    \/ get_db_close(r)

NextOrphan ==
    \/ CreateEventoOrphan
    \/ BeginAddChild
    \/ BeginDelete
    \/ \E r \in Slots : OrphanStep(r)

SpecOrphan == Init /\ [][NextOrphan]_vars

\* C30.  No orphan children under interleaving: whatever the order in which
\* the steps of an add of an expense or a tasting to event E (load and
\* authorize E, then insert) and of a delete of E (load, cascade, commit) are
\* taken, every stored expense and tasting references a stored event.
C30_NoOrphanChild ==
    /\ \A d \in DOMAIN despesas : despesas[d].id_evento \in DOMAIN eventos
    /\ \A d \in DOMAIN degustacoes : degustacoes[d].id_evento \in DOMAIN eventos

\* An add that had loaded and authorized its event was answered after the
\* delete of that event had committed: the insert was refused.
C30_Witness ==
    /\ last.op \in {"add_despesa", "add_degustacao"} /\ last.status = 500
    /\ last.id \notin DOMAIN eventos
    /\ requests[2].op = "delete_evento" /\ requests[2].status = 204 /\ requests[2].id = last.id

\* A delete that had marked the event's children was answered after another
\* child was committed: the delete was refused and the event is still there.
DeleteRefusedAfterInsert ==
    /\ last.op = "delete_evento" /\ last.status = 500
    /\ last.id \in DOMAIN eventos
    /\ requests[1].step = "answered" /\ requests[1].status = 201 /\ requests[1].id = last.id

====
